---- MODULE Spec2Model ----
(***************************************************************************)
(* Discrete-event simulation engine for a fleet of electric scooters       *)
(* served by battery-swap stations (backend/app).                          *)
(*                                                                         *)
(* Units.  The source computes with floats; the model uses integers:       *)
(*   time    1 unit = 0.1 simulated second (the smallest delay the code    *)
(*           schedules, mechanics.py:48)                                   *)
(*   energy  1 unit = 0.0001 kWh (the is_full tolerance, battery.py:38)    *)
(*   power   watts (kW * 1000)                                             *)
(*   speed   grid units per 1000 seconds                                   *)
(*   levels  percent (swap_threshold, low_battery_threshold)               *)
(* The configurations below are chosen so that every division the code     *)
(* performs is exact in these units.                                       *)
(***************************************************************************)
EXTENDS Integers, Sequences, FiniteSets, TLC

VARIABLES engines, event_counter, manager

vars == <<engines, event_counter, manager>>

-----------------------------------------------------------------------------
(* Bounds of the model *)

MaxSeed == 1

\* how many processed events one engine may be ahead of another
MaxSkew == 1

\* tasks ever created by start() and resume()
MaxTasks == 2

\* observers registered at one time
MaxObservers == 2

\* the number of records made on a metrics collector used on its own
MaxRecords == 4

-----------------------------------------------------------------------------
(* Scales and program constants *)

TimeUnitsPerSecond == 10
SpeedScale == 1000
SWAP_DURATION == 30 * TimeUnitsPerSecond
TICK_INTERVAL == 60 * TimeUnitsPerSecond
FIRST_TICK_TIME == 60 * TimeUnitsPerSecond
SAMPLE_INTERVAL == 60 * TimeUnitsPerSecond
HOUR == 3600 * TimeUnitsPerSecond
DAY == 24 * HOUR
ZERO_MOVE_DELAY == 1
FULL_TOLERANCE == 1

None == -1
NonePos == [x |-> -1, y |-> -1]

Min(a, b) == IF a <= b THEN a ELSE b
Max(a, b) == IF a >= b THEN a ELSE b
Abs(a) == IF a >= 0 THEN a ELSE 0 - a

-----------------------------------------------------------------------------
(* Random source: numpy's Generator is modelled as a deterministic         *)
(* generator whose whole state is one number; rng.integers(0, n) advances  *)
(* the state once and returns a value in 0..n-1.                           *)

RngModulus == 256
NextRng(rng) == (rng * 13 + 7) % RngModulus
RngValue(rng, n) == (NextRng(rng) \div 8) % n

RECURSIVE RngAfter(_, _)
RngAfter(rng, k) == IF k = 0 THEN rng ELSE RngAfter(NextRng(rng), k - 1)

-----------------------------------------------------------------------------
(* Position *)

Pos(x, y) == [x |-> x, y |-> y]

distance_to(p, q) == Abs(p.x - q.x) + Abs(p.y - q.y)

InGrid(p, w, h) == 0 <= p.x /\ p.x < w /\ 0 <= p.y /\ p.y < h

neighbors_unbounded(p, w, h) ==
    <<Pos(p.x + 1, p.y), Pos(p.x - 1, p.y), Pos(p.x, p.y + 1), Pos(p.x, p.y - 1)>>

neighbors(p, w, h) ==
    SelectSeq(<<Pos(p.x + 1, p.y), Pos(p.x - 1, p.y),
                Pos(p.x, p.y + 1), Pos(p.x, p.y - 1)>>,
              LAMBDA c : InGrid(c, w, h))

-----------------------------------------------------------------------------
(* Battery *)

charge_level_lt(b, pct) == b.current_charge_kwh * 100 < pct * b.capacity_kwh

is_full(b) == b.current_charge_kwh >= b.capacity_kwh - FULL_TOLERANCE

time_to_full_charge(b, charge_rate_kw) ==
    LET remaining == b.capacity_kwh - b.current_charge_kwh
    IN  IF remaining <= 0 THEN 0
        ELSE (remaining * HOUR) \div (charge_rate_kw * 10)

add_charge(b, energy) ==
    [b EXCEPT !.current_charge_kwh = Min(b.capacity_kwh, b.current_charge_kwh + energy)]

consume_energy_unclamped(b, energy) ==
    [b EXCEPT !.current_charge_kwh = b.current_charge_kwh - energy]

consume_energy(b, energy) ==
    [b EXCEPT !.current_charge_kwh = Max(0, b.current_charge_kwh - energy)]

-----------------------------------------------------------------------------
(* Station *)

SlotIndices(st) == 0 .. (st.num_slots - 1)

has_slot(st, index) == 0 <= index /\ index < st.num_slots

\* charge levels are compared as fractions: a/ca > b/cb  <=>  a*cb > b*ca
RECURSIVE BestFrom(_, _, _, _)
BestFrom(st, batteries, k, best) ==
    IF k >= st.num_slots THEN best
    ELSE LET bid == st.slots[k].battery_id
         IN  IF bid # None /\ bid \in DOMAIN batteries
                /\ (best = None
                    \/ batteries[bid].current_charge_kwh
                          * batteries[st.slots[best].battery_id].capacity_kwh
                       > batteries[st.slots[best].battery_id].current_charge_kwh
                          * batteries[bid].capacity_kwh)
             THEN BestFrom(st, batteries, k + 1, k)
             ELSE BestFrom(st, batteries, k + 1, best)

get_best_battery_slot(st, batteries) == BestFrom(st, batteries, 0, None)

get_empty_slot(st) ==
    LET empty == {k \in SlotIndices(st) : st.slots[k].battery_id = None}
    IN  IF empty = {} THEN None
        ELSE CHOOSE k \in empty : \A j \in empty : k <= j

-----------------------------------------------------------------------------
(* World *)

find_nearest_station(e, position) ==
    LET ids == DOMAIN e.stations
    IN  IF ids = {} THEN None
        ELSE CHOOSE s \in ids :
               \A t \in ids :
                  \/ distance_to(position, e.stations[s].position)
                       < distance_to(position, e.stations[t].position)
                  \/ /\ distance_to(position, e.stations[s].position)
                          = distance_to(position, e.stations[t].position)
                     /\ s <= t

-----------------------------------------------------------------------------
(* Events: one record shape for every kind, unused fields are None *)

BlankEvent ==
    [kind |-> "none", scooter_id |-> None, station_id |-> None,
     battery_id |-> None, new_position |-> NonePos,
     take_from_slot |-> None, deposit_to_slot |-> None, slot_index |-> None,
     wake_up_time |-> None, day_number |-> None]

ScooterMoveEvent(sid, pos) ==
    [BlankEvent EXCEPT !.kind = "ScooterMove", !.scooter_id = sid, !.new_position = pos]

ScooterArriveAtStationEvent(sid, stid) ==
    [BlankEvent EXCEPT !.kind = "ScooterArriveAtStation", !.scooter_id = sid,
                       !.station_id = stid]

BatterySwapEvent(sid, stid, take, deposit) ==
    [BlankEvent EXCEPT !.kind = "BatterySwap", !.scooter_id = sid, !.station_id = stid,
                       !.take_from_slot = take, !.deposit_to_slot = deposit]

BatteryChargingTickEvent(stid) ==
    [BlankEvent EXCEPT !.kind = "BatteryChargingTick", !.station_id = stid]

BatteryFullyChargedEvent(bid, stid, slot) ==
    [BlankEvent EXCEPT !.kind = "BatteryFullyCharged", !.battery_id = bid,
                       !.station_id = stid, !.slot_index = slot]

ScooterGoIdleEvent(sid, wake) ==
    [BlankEvent EXCEPT !.kind = "ScooterGoIdle", !.scooter_id = sid, !.wake_up_time = wake]

ScooterWakeUpEvent(sid) ==
    [BlankEvent EXCEPT !.kind = "ScooterWakeUp", !.scooter_id = sid]

ScooterSwapThenIdleEvent(sid, wake) ==
    [BlankEvent EXCEPT !.kind = "ScooterSwapThenIdle", !.scooter_id = sid,
                       !.wake_up_time = wake]

DailyResetEvent(day) ==
    [BlankEvent EXCEPT !.kind = "DailyReset", !.day_number = day]

EventAt(event, time) == [event |-> event, time |-> time]

-----------------------------------------------------------------------------
(* Activity strategies (activity_strategies.py).  A strategy is a record;  *)
(* type "none" stands for an unset per-scooter strategy.                   *)

NoStrategy ==
    [type |-> "none", activity_start_hour |-> 0, activity_end_hour |-> 0,
     max_distance_per_day_km |-> None, low_battery_threshold |-> 0,
     meters_per_grid_unit |-> 0]

AlwaysActiveStrategy == [NoStrategy EXCEPT !.type = "always_active"]

DEFAULT_ACTIVITY_STRATEGY == AlwaysActiveStrategy

\* hour of day, in time units since midnight
get_time_of_day(simulation_time) == simulation_time % DAY

is_within_active_hours(a, hour_of_day) ==
    IF a.activity_start_hour <= a.activity_end_hour
    THEN a.activity_start_hour <= hour_of_day /\ hour_of_day < a.activity_end_hour
    ELSE hour_of_day >= a.activity_start_hour \/ hour_of_day < a.activity_end_hour

\* max_distance_per_day_km is held in metres: units * m_per_unit / 1000 >= km
has_exceeded_daily_distance(a, scooter) ==
    IF a.max_distance_per_day_km = None THEN FALSE
    ELSE scooter.distance_traveled_today * a.meters_per_grid_unit
            >= a.max_distance_per_day_km

calculate_wake_up_time(a, current_time, reason) ==
    LET hour_of_day == get_time_of_day(current_time)
        until_wake ==
            IF reason = "outside_hours"
            THEN IF hour_of_day >= a.activity_end_hour
                 THEN (DAY - hour_of_day) + a.activity_start_hour
                 ELSE a.activity_start_hour - hour_of_day
            ELSE (DAY - hour_of_day) + a.activity_start_hour
    IN  current_time + until_wake

ActivityCheckResult(decision, wake) == [decision |-> decision, wake_up_time |-> wake]

check_activity(a, e, scooter) ==
    IF a.type = "always_active"
    THEN ActivityCheckResult("continue_active", None)
    ELSE
    LET current_time == e.current_time
        hour_of_day == get_time_of_day(current_time)
        low == /\ scooter.battery_id \in DOMAIN e.batteries
               /\ charge_level_lt(e.batteries[scooter.battery_id], a.low_battery_threshold)
    IN  IF ~is_within_active_hours(a, hour_of_day)
        THEN ActivityCheckResult(IF low THEN "swap_then_idle" ELSE "go_idle",
                                 calculate_wake_up_time(a, current_time, "outside_hours"))
        ELSE IF has_exceeded_daily_distance(a, scooter)
        THEN ActivityCheckResult(IF low THEN "swap_then_idle" ELSE "go_idle",
                                 calculate_wake_up_time(a, current_time, "distance_limit"))
        ELSE ActivityCheckResult("continue_active", None)

should_wake_up(a, scooter, current_time) ==
    IF a.type = "always_active" THEN TRUE
    ELSE /\ scooter.idle_until # None
         /\ scooter.idle_until # 0
         /\ current_time >= scooter.idle_until
         /\ is_within_active_hours(a, get_time_of_day(current_time))
         /\ ~has_exceeded_daily_distance(a, scooter)

on_day_reset(a, scooter) == [scooter EXCEPT !.distance_traveled_today = 0]

\* scooter.activity_strategy or world.activity_strategy (never set) or the default
ActivityStrategyOf(scooter) ==
    IF scooter.activity_strategy.type # "none" THEN scooter.activity_strategy
    ELSE DEFAULT_ACTIVITY_STRATEGY

-----------------------------------------------------------------------------
(* Movement strategies and mechanics *)

travel_time(scooter, distance) ==
    IF distance <= 0 THEN 0
    ELSE (distance * SpeedScale * TimeUnitsPerSecond) \div scooter.speed

Planned(rng, event, time) == [rng |-> rng, event |-> event, time |-> time]

\* RandomWalkStrategy / DirectedMovementStrategy (no destination assigned)
get_next_destination(strategy, e, scooter) ==
    IF strategy = "random_walk"
    THEN LET nb == neighbors(scooter.position, e.grid_width, e.grid_height)
         IN  IF Len(nb) = 0 THEN [rng |-> e.rng, pos |-> scooter.position]
             ELSE [rng |-> NextRng(e.rng), pos |-> nb[RngValue(e.rng, Len(nb)) + 1]]
    ELSE [rng |-> e.rng, pos |-> scooter.position]

schedule_move(e, sid) ==
    LET scooter == e.scooters[sid]
        next == get_next_destination(e.movement_strategy, e, scooter)
        distance == distance_to(scooter.position, next.pos)
        tt == IF distance > 0 THEN travel_time(scooter, distance) ELSE ZERO_MOVE_DELAY
    IN  Planned(next.rng, ScooterMoveEvent(sid, next.pos), e.current_time + tt)

get_next_step_toward_station_y_first(scooter) ==
    IF scooter.target_position = NonePos THEN scooter.position
    ELSE LET dx == scooter.target_position.x - scooter.position.x
             dy == scooter.target_position.y - scooter.position.y
         IN  IF dy # 0
             THEN Pos(scooter.position.x, scooter.position.y + (IF dy > 0 THEN 1 ELSE -1))
             ELSE IF dx # 0
             THEN Pos(scooter.position.x + (IF dx > 0 THEN 1 ELSE -1), scooter.position.y)
             ELSE scooter.position

\* GreedyStationSeekingBehavior
get_next_step_toward_station(scooter) ==
    IF scooter.target_position = NonePos THEN scooter.position
    ELSE LET dx == scooter.target_position.x - scooter.position.x
             dy == scooter.target_position.y - scooter.position.y
         IN  IF dx # 0
             THEN Pos(scooter.position.x + (IF dx > 0 THEN 1 ELSE -1), scooter.position.y)
             ELSE IF dy # 0
             THEN Pos(scooter.position.x, scooter.position.y + (IF dy > 0 THEN 1 ELSE -1))
             ELSE scooter.position

schedule_move_toward_station(e, sid) ==
    LET scooter == e.scooters[sid]
    IN  IF scooter.target_position = NonePos THEN schedule_move(e, sid)
        ELSE LET next_pos == get_next_step_toward_station(scooter)
                 distance == distance_to(scooter.position, next_pos)
                 tt == IF distance > 0 THEN travel_time(scooter, distance) ELSE 0
             IN  Planned(e.rng, ScooterMoveEvent(sid, next_pos), e.current_time + tt)

\* the activity check in front of schedule_move: an inactive scooter gets a
\* go-idle or swap-then-idle event at the current time instead of a move
schedule_move_with_activity_check(e, sid) ==
    LET scooter == e.scooters[sid]
        result == check_activity(ActivityStrategyOf(scooter), e, scooter)
    IN  IF result.decision = "continue_active" THEN schedule_move(e, sid)
        ELSE IF result.decision = "go_idle"
        THEN Planned(e.rng, ScooterGoIdleEvent(sid, result.wake_up_time), e.current_time)
        ELSE Planned(e.rng, ScooterSwapThenIdleEvent(sid, result.wake_up_time), e.current_time)

-----------------------------------------------------------------------------
(* Metrics collector *)

EmptyMetrics ==
    [miss_events |-> <<>>, swap_events |-> <<>>, wait_start_times |-> <<>>,
     wait_durations |-> <<>>, miss_rate_history |-> <<>>, last_sample_time |-> 0]

\* wait_start_times is a sequence of <<scooter_id, time>> pairs with at most
\* one pair per scooter (a dict in the source)
WaitStartOf(m, sid) == {p \in 1 .. Len(m.wait_start_times) : m.wait_start_times[p][1] = sid}

RemoveAt(seq, k) == SubSeq(seq, 1, k - 1) \o SubSeq(seq, k + 1, Len(seq))

record_no_battery_miss_without_wait(m, time, sid, stid) ==
    [m EXCEPT !.miss_events = Append(@, [timestamp |-> time, scooter_id |-> sid,
                                         station_id |-> stid,
                                         miss_type |-> "NO_BATTERY"])]

record_no_battery_miss(m, time, sid, stid) ==
    LET miss == [timestamp |-> time, scooter_id |-> sid, station_id |-> stid,
                 miss_type |-> "NO_BATTERY"]
        old == WaitStartOf(m, sid)
        starts == IF old = {} THEN Append(m.wait_start_times, <<sid, time>>)
                  ELSE [m.wait_start_times EXCEPT ![CHOOSE p \in old : TRUE] = <<sid, time>>]
    IN  [m EXCEPT !.miss_events = Append(@, miss), !.wait_start_times = starts]

record_partial_charge_miss(m, time, sid, stid) ==
    [m EXCEPT !.miss_events = Append(@, [timestamp |-> time, scooter_id |-> sid,
                                         station_id |-> stid,
                                         miss_type |-> "PARTIAL_CHARGE"])]

record_swap_without_miss(m, time, sid, stid, old_level, new_level) ==
    LET was_partial == new_level[1] * 10000 < 9999 * new_level[2]
        swap == [timestamp |-> time, scooter_id |-> sid, station_id |-> stid,
                 old_battery_level |-> old_level, new_battery_level |-> new_level,
                 was_partial |-> was_partial]
        m2 == [m EXCEPT !.swap_events = Append(@, swap)]
        w == WaitStartOf(m2, sid)
    IN  IF w = {} THEN m2
        ELSE LET p == CHOOSE q \in w : TRUE
             IN  [m2 EXCEPT !.wait_durations = Append(@, time - m2.wait_start_times[p][2]),
                            !.wait_start_times = RemoveAt(@, p)]

\* levels are passed as <<charge, capacity>>; new_level < 0.9999
record_swap(m, time, sid, stid, old_level, new_level) ==
    LET was_partial == new_level[1] * 10000 < 9999 * new_level[2]
        swap == [timestamp |-> time, scooter_id |-> sid, station_id |-> stid,
                 old_battery_level |-> old_level, new_battery_level |-> new_level,
                 was_partial |-> was_partial]
        m1 == [m EXCEPT !.swap_events = Append(@, swap)]
        m2 == IF was_partial THEN record_partial_charge_miss(m1, time, sid, stid) ELSE m1
        w == WaitStartOf(m2, sid)
    IN  IF w = {} THEN m2
        ELSE LET p == CHOOSE q \in w : TRUE
             IN  [m2 EXCEPT !.wait_durations = Append(@, time - m2.wait_start_times[p][2]),
                            !.wait_start_times = RemoveAt(@, p)]

total_swaps(m) == Len(m.swap_events)
total_misses(m) == Len(m.miss_events)

no_battery_misses(m) ==
    Cardinality({k \in 1 .. Len(m.miss_events) : m.miss_events[k].miss_type = "NO_BATTERY"})

partial_charge_misses(m) ==
    Cardinality({k \in 1 .. Len(m.miss_events) :
                    m.miss_events[k].miss_type = "PARTIAL_CHARGE"})

\* the rate misses/swaps is kept as the pair <<misses, swaps>>; <<0, 1>> is 0.0
current_miss_rate(m) ==
    IF total_swaps(m) = 0 THEN <<0, 1>> ELSE <<total_misses(m), total_swaps(m)>>

sample_metrics_every_event(m, current_time) ==
    [m EXCEPT !.miss_rate_history = Append(@, <<current_time, current_miss_rate(m)>>),
              !.last_sample_time = current_time]

sample_metrics(m, current_time) ==
    IF current_time - m.last_sample_time >= SAMPLE_INTERVAL
    THEN [m EXCEPT !.miss_rate_history = Append(@, <<current_time, current_miss_rate(m)>>),
                   !.last_sample_time = current_time]
    ELSE m

-----------------------------------------------------------------------------
(* Event processing (events.py).  Each operator takes the engine record    *)
(* with current_time already advanced and returns the mutated engine and   *)
(* the follow-up (event, time) pairs in the order the code returns them.   *)

Out(e, new) == [e |-> e, new |-> new]

ProcessScooterMove_moves_on_arrival(e, ev) ==
    LET sid == ev.scooter_id
    IN
    IF sid \notin DOMAIN e.scooters THEN Out(e, <<>>)
    ELSE IF e.scooters[sid].battery_id \notin DOMAIN e.batteries THEN Out(e, <<>>)
    ELSE
    LET s0 == e.scooters[sid]
        distance == distance_to(s0.position, ev.new_position)
        bat == consume_energy(e.batteries[s0.battery_id], distance * s0.consumption_rate)
        s1 == [s0 EXCEPT !.distance_traveled_today = @ + distance,
                         !.position = ev.new_position]
        nearest == find_nearest_station(e, s1.position)
        s2 == IF charge_level_lt(bat, s1.swap_threshold) /\ s1.state = "MOVING"
                 /\ nearest # None
              THEN [s1 EXCEPT !.state = "TRAVELING_TO_STATION",
                              !.target_station_id = nearest,
                              !.target_position = e.stations[nearest].position]
              ELSE s1
        e1 == [e EXCEPT !.batteries[s0.battery_id] = bat, !.scooters[sid] = s2]
    IN
    IF s2.state = "MOVING"
    THEN LET p == schedule_move_with_activity_check(e1, sid)
         IN  Out([e1 EXCEPT !.rng = p.rng], <<EventAt(p.event, p.time)>>)
    ELSE IF s2.state = "TRAVELING_TO_STATION"
    THEN IF s2.position = s2.target_position
         THEN LET p == schedule_move_toward_station(e1, sid)
              IN  Out([e1 EXCEPT !.rng = p.rng],
                      <<EventAt(ScooterArriveAtStationEvent(sid, s2.target_station_id),
                                e1.current_time),
                        EventAt(p.event, p.time)>>)
         ELSE LET p == schedule_move_toward_station(e1, sid)
              IN  Out([e1 EXCEPT !.rng = p.rng], <<EventAt(p.event, p.time)>>)
    ELSE Out(e1, <<>>)

ProcessScooterMove(e, ev) ==
    LET sid == ev.scooter_id
    IN
    IF sid \notin DOMAIN e.scooters THEN Out(e, <<>>)
    ELSE IF e.scooters[sid].battery_id \notin DOMAIN e.batteries THEN Out(e, <<>>)
    ELSE
    LET s0 == e.scooters[sid]
        distance == distance_to(s0.position, ev.new_position)
        bat == consume_energy(e.batteries[s0.battery_id], distance * s0.consumption_rate)
        s1 == [s0 EXCEPT !.distance_traveled_today = @ + distance,
                         !.position = ev.new_position]
        nearest == find_nearest_station(e, s1.position)
        s2 == IF charge_level_lt(bat, s1.swap_threshold) /\ s1.state = "MOVING"
                 /\ nearest # None
              THEN [s1 EXCEPT !.state = "TRAVELING_TO_STATION",
                              !.target_station_id = nearest,
                              !.target_position = e.stations[nearest].position]
              ELSE s1
        e1 == [e EXCEPT !.batteries[s0.battery_id] = bat, !.scooters[sid] = s2]
    IN
    IF s2.state = "MOVING"
    THEN LET p == schedule_move_with_activity_check(e1, sid)
         IN  Out([e1 EXCEPT !.rng = p.rng], <<EventAt(p.event, p.time)>>)
    ELSE IF s2.state = "TRAVELING_TO_STATION"
    THEN IF s2.position = s2.target_position
         THEN Out(e1, <<EventAt(ScooterArriveAtStationEvent(sid, s2.target_station_id),
                                e1.current_time)>>)
         ELSE LET p == schedule_move_toward_station(e1, sid)
              IN  Out([e1 EXCEPT !.rng = p.rng], <<EventAt(p.event, p.time)>>)
    ELSE Out(e1, <<>>)

ProcessScooterArriveAtStation_ignores_empty_slot(e, ev) ==
    LET sid == ev.scooter_id
        stid == ev.station_id
    IN
    IF sid \notin DOMAIN e.scooters \/ stid \notin DOMAIN e.stations THEN Out(e, <<>>)
    ELSE
    LET station == e.stations[stid]
        best_slot == get_best_battery_slot(station, e.batteries)
        empty_slot == get_empty_slot(station)
    IN
    IF best_slot # None
    THEN Out([e EXCEPT !.scooters[sid].state = "SWAPPING"],
             <<EventAt(BatterySwapEvent(sid, stid, best_slot, empty_slot),
                       e.current_time + SWAP_DURATION)>>)
    ELSE Out([e EXCEPT !.scooters[sid].state = "WAITING_FOR_BATTERY",
                       !.metrics = record_no_battery_miss(@, e.current_time, sid, stid)],
             <<>>)

ProcessScooterArriveAtStation(e, ev) ==
    LET sid == ev.scooter_id
        stid == ev.station_id
    IN
    IF sid \notin DOMAIN e.scooters \/ stid \notin DOMAIN e.stations THEN Out(e, <<>>)
    ELSE
    LET station == e.stations[stid]
        best_slot == get_best_battery_slot(station, e.batteries)
        empty_slot == get_empty_slot(station)
    IN
    IF best_slot # None /\ empty_slot # None
    THEN Out([e EXCEPT !.scooters[sid].state = "SWAPPING"],
             <<EventAt(BatterySwapEvent(sid, stid, best_slot, empty_slot),
                       e.current_time + SWAP_DURATION)>>)
    ELSE Out([e EXCEPT !.scooters[sid].state = "WAITING_FOR_BATTERY",
                       !.metrics = record_no_battery_miss(@, e.current_time, sid, stid)],
             <<>>)

deposit_old_battery_not_charging(e, old_battery_id, stid, dep) ==
    [e EXCEPT !.batteries[old_battery_id] =
                  [@ EXCEPT !.location = "IN_STATION", !.station_id = stid,
                            !.slot_index = dep, !.scooter_id = None],
              !.stations[stid].slots[dep] =
                  [battery_id |-> old_battery_id, is_charging |-> FALSE]]

\* BatterySwapEvent.process, "1. Put old battery in station"
deposit_old_battery(e, old_battery_id, stid, dep) ==
    [e EXCEPT !.batteries[old_battery_id] =
                  [@ EXCEPT !.location = "IN_STATION", !.station_id = stid,
                            !.slot_index = dep, !.scooter_id = None],
              !.stations[stid].slots[dep] =
                  [battery_id |-> old_battery_id, is_charging |-> TRUE]]

take_new_battery_no_backref(e, new_battery_id, sid, stid, take) ==
    [e EXCEPT !.batteries[new_battery_id] =
                  [@ EXCEPT !.location = "IN_SCOOTER",
                            !.station_id = None, !.slot_index = None],
              !.stations[stid].slots[take] =
                  [battery_id |-> None, is_charging |-> FALSE]]

take_new_battery_keeps_slot(e, new_battery_id, sid, stid, take) ==
    [e EXCEPT !.batteries[new_battery_id] =
                  [@ EXCEPT !.location = "IN_SCOOTER", !.scooter_id = sid,
                            !.station_id = None, !.slot_index = None],
              !.stations[stid].slots[take].is_charging = FALSE]

\* BatterySwapEvent.process, "2. Take new battery from station"
take_new_battery(e, new_battery_id, sid, stid, take) ==
    [e EXCEPT !.batteries[new_battery_id] =
                  [@ EXCEPT !.location = "IN_SCOOTER", !.scooter_id = sid,
                            !.station_id = None, !.slot_index = None],
              !.stations[stid].slots[take] =
                  [battery_id |-> None, is_charging |-> FALSE]]

ProcessBatterySwap(e, ev) ==
    LET sid == ev.scooter_id
        stid == ev.station_id
        take == ev.take_from_slot
        dep == ev.deposit_to_slot
    IN
    IF sid \notin DOMAIN e.scooters \/ stid \notin DOMAIN e.stations THEN Out(e, <<>>)
    ELSE
    LET scooter == e.scooters[sid]
        station == e.stations[stid]
        old_battery_id == scooter.battery_id
    IN
    IF ~has_slot(station, take) \/ station.slots[take].battery_id = None
    THEN \* the battery was taken by another scooter during the swap duration
         LET new_best_slot == get_best_battery_slot(station, e.batteries)
             new_empty_slot == get_empty_slot(station)
         IN  IF new_best_slot # None /\ new_empty_slot # None
             THEN Out(e, <<EventAt(BatterySwapEvent(sid, stid, new_best_slot, new_empty_slot),
                                   e.current_time + SWAP_DURATION)>>)
             ELSE Out([e EXCEPT !.scooters[sid].state = "WAITING_FOR_BATTERY",
                                !.metrics = record_no_battery_miss(@, e.current_time, sid, stid)],
                      <<>>)
    ELSE
    LET new_battery_id == station.slots[take].battery_id
    IN
    IF old_battery_id \notin DOMAIN e.batteries \/ new_battery_id \notin DOMAIN e.batteries
    THEN Out(e, <<>>)
    ELSE
    LET old0 == e.batteries[old_battery_id]
        new0 == e.batteries[new_battery_id]
        old_battery_level == <<old0.current_charge_kwh, old0.capacity_kwh>>
        new_battery_level == <<new0.current_charge_kwh, new0.capacity_kwh>>
        e1 == deposit_old_battery(e, old_battery_id, stid, dep)
        e2 == take_new_battery(e1, new_battery_id, sid, stid, take)
        \* 3. update scooter
        sc3 == [scooter EXCEPT !.battery_id = new_battery_id, !.state = "MOVING",
                               !.target_station_id = None, !.target_position = NonePos]
        \* 4. metrics
        m4 == record_swap(e.metrics, e.current_time, sid, stid,
                          old_battery_level, new_battery_level)
        old_battery == e2.batteries[old_battery_id]
        charged == IF ~is_full(old_battery)
                   THEN <<EventAt(BatteryFullyChargedEvent(old_battery_id, stid, dep),
                                  e.current_time
                                    + time_to_full_charge(old_battery, station.charge_rate_kw))>>
                   ELSE <<>>
        e4 == [e2 EXCEPT !.scooters[sid] = sc3, !.metrics = m4]
    IN
    IF sc3.idle_until # None
    THEN \* pre-idle swap flow
         Out([e4 EXCEPT !.scooters[sid].idle_until = None],
             charged \o <<EventAt(ScooterGoIdleEvent(sid, sc3.idle_until), e.current_time)>>)
    ELSE LET p == schedule_move_with_activity_check(e4, sid)
         IN  Out([e4 EXCEPT !.rng = p.rng], charged \o <<EventAt(p.event, p.time)>>)

RECURSIVE ChargeSlots(_, _, _, _)
ChargeSlots(batteries, station, k, charge_added) ==
    IF k >= station.num_slots THEN batteries
    ELSE LET slot == station.slots[k]
             bid == slot.battery_id
         IN  IF bid # None /\ slot.is_charging /\ bid \in DOMAIN batteries
                /\ ~is_full(batteries[bid])
             THEN ChargeSlots([batteries EXCEPT ![bid] = add_charge(@, charge_added)],
                              station, k + 1, charge_added)
             ELSE ChargeSlots(batteries, station, k + 1, charge_added)

ProcessBatteryChargingTick(e, ev) ==
    LET stid == ev.station_id
    IN
    IF stid \notin DOMAIN e.stations THEN Out(e, <<>>)
    ELSE
    LET station == e.stations[stid]
        charge_added == (station.charge_rate_kw * TICK_INTERVAL * 10) \div HOUR
        next_tick_time == e.current_time + TICK_INTERVAL
    IN  Out([e EXCEPT !.batteries = ChargeSlots(@, station, 0, charge_added)],
            IF next_tick_time < e.max_time
            THEN <<EventAt(BatteryChargingTickEvent(stid), next_tick_time)>>
            ELSE <<>>)

ProcessBatteryFullyCharged_wakes_last(e, ev) ==
    LET bid == ev.battery_id
        stid == ev.station_id
        k == ev.slot_index
    IN
    IF bid \notin DOMAIN e.batteries \/ stid \notin DOMAIN e.stations THEN Out(e, <<>>)
    ELSE
    LET e1 == [e EXCEPT !.batteries[bid].current_charge_kwh = e.batteries[bid].capacity_kwh]
        e2 == IF has_slot(e.stations[stid], k)
              THEN [e1 EXCEPT !.stations[stid].slots[k].is_charging = FALSE]
              ELSE e1
        waiting == {s \in DOMAIN e.scooters :
                       /\ e.scooters[s].state = "WAITING_FOR_BATTERY"
                       /\ e.scooters[s].target_station_id = stid}
        empty_slot == get_empty_slot(e2.stations[stid])
    IN
    IF waiting # {} /\ empty_slot # None
    THEN LET sid == CHOOSE s \in waiting : \A t \in waiting : s >= t
         IN  Out([e2 EXCEPT !.scooters[sid].state = "SWAPPING"],
                 <<EventAt(BatterySwapEvent(sid, stid, k, empty_slot),
                           e.current_time + SWAP_DURATION)>>)
    ELSE Out(e2, <<>>)

ProcessBatteryFullyCharged(e, ev) ==
    LET bid == ev.battery_id
        stid == ev.station_id
        k == ev.slot_index
    IN
    IF bid \notin DOMAIN e.batteries \/ stid \notin DOMAIN e.stations THEN Out(e, <<>>)
    ELSE
    LET e1 == [e EXCEPT !.batteries[bid].current_charge_kwh = e.batteries[bid].capacity_kwh]
        e2 == IF has_slot(e.stations[stid], k)
              THEN [e1 EXCEPT !.stations[stid].slots[k].is_charging = FALSE]
              ELSE e1
        waiting == {s \in DOMAIN e.scooters :
                       /\ e.scooters[s].state = "WAITING_FOR_BATTERY"
                       /\ e.scooters[s].target_station_id = stid}
        empty_slot == get_empty_slot(e2.stations[stid])
    IN
    IF waiting # {} /\ empty_slot # None
    THEN LET sid == CHOOSE s \in waiting : \A t \in waiting : s <= t
         IN  Out([e2 EXCEPT !.scooters[sid].state = "SWAPPING"],
                 <<EventAt(BatterySwapEvent(sid, stid, k, empty_slot),
                           e.current_time + SWAP_DURATION)>>)
    ELSE Out(e2, <<>>)

ProcessScooterGoIdle_unchecked(e, ev) ==
    LET sid == ev.scooter_id
    IN  Out([e EXCEPT !.scooters =
                [s \in DOMAIN @ |->
                    IF s = sid
                    THEN [@[s] EXCEPT !.state = "IDLE", !.idle_until = ev.wake_up_time,
                                      !.target_station_id = None,
                                      !.target_position = NonePos]
                    ELSE @[s]]],
            <<EventAt(ScooterWakeUpEvent(sid), ev.wake_up_time)>>)

ProcessScooterGoIdle(e, ev) ==
    LET sid == ev.scooter_id
    IN
    IF sid \notin DOMAIN e.scooters THEN Out(e, <<>>)
    ELSE Out([e EXCEPT !.scooters[sid] =
                 [@ EXCEPT !.state = "IDLE", !.idle_until = ev.wake_up_time,
                           !.target_station_id = None, !.target_position = NonePos]],
             <<EventAt(ScooterWakeUpEvent(sid), ev.wake_up_time)>>)

ProcessScooterWakeUp_no_reschedule(e, ev) ==
    LET sid == ev.scooter_id
    IN
    IF sid \notin DOMAIN e.scooters THEN Out(e, <<>>)
    ELSE IF e.scooters[sid].state # "IDLE" THEN Out(e, <<>>)
    ELSE
    LET scooter == e.scooters[sid]
        strategy == ActivityStrategyOf(scooter)
    IN
    IF ~should_wake_up(strategy, scooter, e.current_time)
    THEN Out(e, <<>>)
    ELSE LET e1 == [e EXCEPT !.scooters[sid].state = "MOVING",
                             !.scooters[sid].idle_until = None]
             p == schedule_move(e1, sid)
         IN  Out([e1 EXCEPT !.rng = p.rng], <<EventAt(p.event, p.time)>>)

ProcessScooterWakeUp(e, ev) ==
    LET sid == ev.scooter_id
    IN
    IF sid \notin DOMAIN e.scooters THEN Out(e, <<>>)
    ELSE IF e.scooters[sid].state # "IDLE" THEN Out(e, <<>>)
    ELSE
    LET scooter == e.scooters[sid]
        strategy == ActivityStrategyOf(scooter)
    IN
    IF ~should_wake_up(strategy, scooter, e.current_time)
    THEN LET result == check_activity(strategy, e, scooter)
         IN  IF result.wake_up_time # None /\ result.wake_up_time # 0
             THEN Out(e, <<EventAt(ScooterWakeUpEvent(sid), result.wake_up_time)>>)
             ELSE Out(e, <<>>)
    ELSE LET e1 == [e EXCEPT !.scooters[sid].state = "MOVING",
                             !.scooters[sid].idle_until = None]
             p == schedule_move(e1, sid)
         IN  Out([e1 EXCEPT !.rng = p.rng], <<EventAt(p.event, p.time)>>)

ProcessScooterSwapThenIdle_forgets_wake_up(e, ev) ==
    LET sid == ev.scooter_id
    IN
    IF sid \notin DOMAIN e.scooters THEN Out(e, <<>>)
    ELSE
    LET nearest == find_nearest_station(e, e.scooters[sid].position)
    IN
    IF nearest # None
    THEN LET e2 == [e EXCEPT !.scooters[sid] =
                       [@ EXCEPT !.state = "TRAVELING_TO_STATION",
                                 !.target_station_id = nearest,
                                 !.target_position = e.stations[nearest].position]]
             p == schedule_move_toward_station(e2, sid)
         IN  Out([e2 EXCEPT !.rng = p.rng], <<EventAt(p.event, p.time)>>)
    ELSE Out(e, <<EventAt(ScooterGoIdleEvent(sid, ev.wake_up_time), e.current_time)>>)

ProcessScooterSwapThenIdle(e, ev) ==
    LET sid == ev.scooter_id
    IN
    IF sid \notin DOMAIN e.scooters THEN Out(e, <<>>)
    ELSE
    LET e1 == [e EXCEPT !.scooters[sid].idle_until = ev.wake_up_time]
        nearest == find_nearest_station(e1, e1.scooters[sid].position)
    IN
    IF nearest # None
    THEN LET e2 == [e1 EXCEPT !.scooters[sid] =
                       [@ EXCEPT !.state = "TRAVELING_TO_STATION",
                                 !.target_station_id = nearest,
                                 !.target_position = e1.stations[nearest].position]]
             p == schedule_move_toward_station(e2, sid)
         IN  Out([e2 EXCEPT !.rng = p.rng], <<EventAt(p.event, p.time)>>)
    ELSE Out(e1, <<EventAt(ScooterGoIdleEvent(sid, ev.wake_up_time), e.current_time)>>)

get_next_midnight(current_simulation_time) ==
    ((current_simulation_time \div DAY) + 1) * DAY

\* the loop over world.scooters.values() of DailyResetEvent.process
RECURSIVE ResetScooters(_, _, _)
ResetScooters(e, sid, new) ==
    IF sid \notin DOMAIN e.scooters THEN Out(e, new)
    ELSE
    LET strategy == ActivityStrategyOf(e.scooters[sid])
        e1 == [e EXCEPT !.scooters[sid] = on_day_reset(strategy, @)]
    IN
    IF e1.scooters[sid].state = "IDLE"
       /\ should_wake_up(strategy, e1.scooters[sid], e1.current_time)
    THEN LET e2 == [e1 EXCEPT !.scooters[sid].state = "MOVING",
                              !.scooters[sid].idle_until = None]
             p == schedule_move(e2, sid)
         IN  ResetScooters([e2 EXCEPT !.rng = p.rng], sid + 1,
                           Append(new, EventAt(p.event, p.time)))
    ELSE ResetScooters(e1, sid + 1, new)

ProcessDailyReset(e, ev) ==
    LET r == ResetScooters(e, 0, <<>>)
        next_midnight == get_next_midnight(e.current_time)
    IN  Out(r.e,
            IF next_midnight < e.max_time
            THEN Append(r.new, EventAt(DailyResetEvent(ev.day_number + 1), next_midnight))
            ELSE r.new)

process(e, ev) ==
    CASE ev.kind = "ScooterMove" -> ProcessScooterMove(e, ev)
      [] ev.kind = "ScooterArriveAtStation" -> ProcessScooterArriveAtStation(e, ev)
      [] ev.kind = "BatterySwap" -> ProcessBatterySwap(e, ev)
      [] ev.kind = "BatteryChargingTick" -> ProcessBatteryChargingTick(e, ev)
      [] ev.kind = "BatteryFullyCharged" -> ProcessBatteryFullyCharged(e, ev)
      [] ev.kind = "ScooterGoIdle" -> ProcessScooterGoIdle(e, ev)
      [] ev.kind = "ScooterWakeUp" -> ProcessScooterWakeUp(e, ev)
      [] ev.kind = "ScooterSwapThenIdle" -> ProcessScooterSwapThenIdle(e, ev)
      [] ev.kind = "DailyReset" -> ProcessDailyReset(e, ev)

-----------------------------------------------------------------------------
(* Event scheduler (scheduler.py).  The heap is kept as the sequence of    *)
(* its entries in insertion order; next_event removes an entry that is     *)
(* minimal for (scheduled_time, event_id), which is what heappop returns.  *)
(* event_counter is the process-wide _event_counter.                       *)

ScheduledEvent(time, id, event) ==
    [scheduled_time |-> time, event_id |-> id, event |-> event]

EntryLess_time_only(a, b) ==
    a.scheduled_time < b.scheduled_time

EntryLess(a, b) ==
    \/ a.scheduled_time < b.scheduled_time
    \/ a.scheduled_time = b.scheduled_time /\ a.event_id < b.event_id

MinIndices(queue) ==
    {k \in 1 .. Len(queue) : \A j \in 1 .. Len(queue) : ~EntryLess(queue[j], queue[k])}

schedule(queue, counter, event, time) ==
    Append(queue, ScheduledEvent(time, counter + 1, event))

RECURSIVE schedule_many(_, _, _)
schedule_many(queue, counter, events) ==
    IF events = <<>> THEN queue
    ELSE schedule_many(schedule(queue, counter, Head(events).event, Head(events).time),
                       counter + 1, Tail(events))

BlankEntry == ScheduledEvent(None, None, BlankEvent)

-----------------------------------------------------------------------------
(* Engine initialization (simulation_engine.py) *)

Isqrt(n) == CHOOSE r \in 0 .. n : r * r <= n /\ n < (r + 1) * (r + 1)

generate_station_positions(cfg) ==
    LET n == cfg.num_stations
        cols == Isqrt(n) + 1
        rows == (n + cols - 1) \div cols
        x_step == cfg.grid_width \div (cols + 1)
        y_step == cfg.grid_height \div (rows + 1)
    IN  [i \in 1 .. n |-> Pos(x_step * (((i - 1) % cols) + 1),
                              y_step * (((i - 1) \div cols) + 1))]

StationPositions(cfg) ==
    IF cfg.station_positions = <<>> THEN generate_station_positions(cfg)
    ELSE cfg.station_positions

RECURSIVE SumCounts(_, _)
SumCounts(groups, k) == IF k = 0 THEN 0 ELSE groups[k].count + SumCounts(groups, k - 1)

get_total_scooters(cfg) ==
    IF cfg.scooter_groups # <<>> THEN SumCounts(cfg.scooter_groups, Len(cfg.scooter_groups))
    ELSE cfg.num_scooters

InitialPerStation(cfg) == Min(cfg.initial_batteries_per_station, cfg.slots_per_station)

initialize_stations(cfg) ==
    LET positions == StationPositions(cfg)
        nb == InitialPerStation(cfg)
    IN  [s \in 0 .. (Len(positions) - 1) |->
            [position |-> positions[s + 1],
             num_slots |-> cfg.slots_per_station,
             charge_rate_kw |-> cfg.station_charge_rate_kw,
             slots |-> [k \in 0 .. (cfg.slots_per_station - 1) |->
                           [battery_id |-> IF k < nb THEN s * nb + k ELSE None,
                            is_charging |-> FALSE]]]]

initialize_batteries(cfg) ==
    LET nst == Len(StationPositions(cfg))
        nb == InitialPerStation(cfg)
        in_stations == nst * nb
    IN  [b \in 0 .. (in_stations + get_total_scooters(cfg) - 1) |->
            IF b < in_stations
            THEN [capacity_kwh |-> cfg.battery_capacity_kwh,
                  current_charge_kwh |-> cfg.battery_capacity_kwh,
                  location |-> "IN_STATION",
                  station_id |-> b \div nb, slot_index |-> b % nb, scooter_id |-> None]
            ELSE [capacity_kwh |-> cfg.battery_capacity_kwh,
                  current_charge_kwh |-> (cfg.battery_capacity_kwh * 8) \div 10,
                  location |-> "IN_SCOOTER",
                  station_id |-> None, slot_index |-> None,
                  scooter_id |-> b - in_stations]]

\* index (from 1) of the group scooter i belongs to
GroupOf(cfg, i) ==
    CHOOSE g \in 1 .. Len(cfg.scooter_groups) :
        SumCounts(cfg.scooter_groups, g - 1) <= i /\ i < SumCounts(cfg.scooter_groups, g)

resolve_activity_strategy(cfg, group) ==
    IF group.activity_strategy = "none" THEN NoStrategy
    ELSE IF group.activity_strategy = "always_active" THEN AlwaysActiveStrategy
    ELSE [type |-> "scheduled",
          activity_start_hour |-> group.activity_start_hour,
          activity_end_hour |-> group.activity_end_hour,
          max_distance_per_day_km |-> group.max_distance_per_day_km,
          low_battery_threshold |-> group.low_battery_threshold,
          meters_per_grid_unit |-> cfg.meters_per_grid_unit]

initialize_scooters(cfg, rng) ==
    LET n == get_total_scooters(cfg)
        battery_idx == Len(StationPositions(cfg)) * InitialPerStation(cfg)
    IN  [i \in 0 .. (n - 1) |->
            LET x == RngValue(RngAfter(rng, 2 * i), cfg.grid_width)
                y == RngValue(RngAfter(rng, 2 * i + 1), cfg.grid_height)
                base == [position |-> Pos(x, y),
                         battery_id |-> battery_idx + i,
                         state |-> "MOVING",
                         speed |-> cfg.scooter_speed,
                         consumption_rate |-> cfg.consumption_rate_kwh_per_unit,
                         swap_threshold |-> cfg.swap_threshold,
                         target_station_id |-> None,
                         target_position |-> NonePos,
                         movement_strategy |-> "none",
                         group_id |-> None,
                         activity_strategy |-> NoStrategy,
                         distance_traveled_today |-> 0,
                         idle_until |-> None]
            IN  IF cfg.scooter_groups = <<>> THEN base
                ELSE LET g == GroupOf(cfg, i)
                         group == cfg.scooter_groups[g]
                     IN  [base EXCEPT
                            !.speed = IF group.speed # None THEN group.speed
                                      ELSE cfg.scooter_speed,
                            !.swap_threshold = IF group.swap_threshold # None
                                               THEN group.swap_threshold
                                               ELSE cfg.swap_threshold,
                            !.group_id = g - 1,
                            !.movement_strategy = group.movement_strategy,
                            !.activity_strategy = resolve_activity_strategy(cfg, group)]]

\* SimulationEngine.__init__: the engine before initialize()
NewEngine(cfg) ==
    [config |-> cfg,
     grid_width |-> cfg.grid_width,
     grid_height |-> cfg.grid_height,
     movement_strategy |-> cfg.movement_strategy,
     max_time |-> cfg.max_duration_seconds,
     current_time |-> 0,
     batteries |-> <<>>,
     stations |-> <<>>,
     scooters |-> <<>>,
     queue |-> <<>>,
     rng |-> cfg.random_seed,
     metrics |-> EmptyMetrics,
     status |-> "IDLE",
     event_count |-> 0,
     observers |-> <<>>,
     notified |-> <<>>,
     reselected |-> {},
     run |-> "none",
     last_event |-> BlankEntry,
     last_step |-> "none"]

\* the loop over the scooters of _schedule_initial_events
RECURSIVE ScheduleInitialMoves(_, _, _)
ScheduleInitialMoves(e, counter, sid) ==
    IF sid \notin DOMAIN e.scooters THEN e
    ELSE LET p == schedule_move_with_activity_check(e, sid)
         IN  ScheduleInitialMoves(
                 [e EXCEPT !.rng = p.rng,
                           !.queue = schedule(@, counter, p.event, p.time)],
                 counter + 1, sid + 1)

schedule_initial_events(e) ==
    LET e1 == ScheduleInitialMoves(e, 0, 0)
        nsc == Len(e1.queue)
        ticks == [s \in 1 .. Cardinality(DOMAIN e.stations) |->
                     EventAt(BatteryChargingTickEvent(s - 1), FIRST_TICK_TIME)]
        q2 == schedule_many(e1.queue, nsc, ticks)
        first_midnight == get_next_midnight(0)
    IN  [e1 EXCEPT !.queue =
            IF first_midnight < e.config.max_duration_seconds
            THEN schedule(q2, Len(q2), DailyResetEvent(1), first_midnight)
            ELSE q2]

\* initialize(): reset_event_counter(), then stations, batteries, scooters
\* and the initial events; the counter afterwards is the number of events
initialize(e) ==
    LET cfg == e.config
        e1 == [e EXCEPT !.stations = initialize_stations(cfg),
                        !.batteries = initialize_batteries(cfg),
                        !.scooters = initialize_scooters(cfg, e.rng),
                        !.rng = RngAfter(e.rng, 2 * get_total_scooters(cfg))]
    IN  [schedule_initial_events(e1) EXCEPT !.status = "IDLE"]

-----------------------------------------------------------------------------
(* Configurations the engines are built from *)

NoGroup ==
    [count |-> 0, speed |-> None, swap_threshold |-> None,
     movement_strategy |-> "none", activity_strategy |-> "none",
     activity_start_hour |-> 8 * HOUR, activity_end_hour |-> 20 * HOUR,
     max_distance_per_day_km |-> None, low_battery_threshold |-> 30]

BaseConfig ==
    [grid_width |-> 3, grid_height |-> 3,
     max_duration_seconds |-> 300 * TimeUnitsPerSecond,
     meters_per_grid_unit |-> 100,
     num_stations |-> 1,
     station_positions |-> <<>>,
     slots_per_station |-> 3,
     station_charge_rate_kw |-> 1200,
     initial_batteries_per_station |-> 2,
     num_scooters |-> 3,
     scooter_speed |-> 1000,
     swap_threshold |-> 30,
     battery_capacity_kwh |-> 10000,
     consumption_rate_kwh_per_unit |-> 1000,
     movement_strategy |-> "random_walk",
     scooter_groups |-> <<>>,
     random_seed |-> 0]

\* three always-active scooters competing for one station
ContentionConfig ==
    [BaseConfig EXCEPT !.station_charge_rate_kw = 36000,
                       !.max_duration_seconds = 600 * TimeUnitsPerSecond]

\* a scheduled scooter that is outside its hours at time 0 with a battery
\* below its low-battery threshold, next to an always-active one
PreIdleConfig ==
    [BaseConfig EXCEPT
        !.scooter_speed = 100,
        !.station_charge_rate_kw = 36000,
        !.station_positions = <<Pos(0, 0)>>,
        !.max_duration_seconds = 200 * TimeUnitsPerSecond,
        !.scooter_groups =
            <<[NoGroup EXCEPT !.count = 1, !.activity_strategy = "scheduled",
                              !.activity_start_hour = 36 * TimeUnitsPerSecond,
                              !.low_battery_threshold = 90],
              [NoGroup EXCEPT !.count = 1, !.activity_strategy = "always_active",
                              !.speed = 500]>>]

\* a station without batteries: arriving scooters wait
EmptyStationConfig ==
    [BaseConfig EXCEPT !.initial_batteries_per_station = 0,
                       !.num_scooters = 2,
                       !.max_duration_seconds = 150 * TimeUnitsPerSecond]

\* a station whose slots all hold a battery: arriving scooters wait
FullStationConfig ==
    [BaseConfig EXCEPT !.initial_batteries_per_station = 3,
                       !.num_scooters = 2,
                       !.max_duration_seconds = 150 * TimeUnitsPerSecond]

\* more than a day, scheduled scooters with a daily distance cap
DayConfig ==
    [BaseConfig EXCEPT
        !.num_stations = 0,
        !.max_duration_seconds = 33 * HOUR,
        !.scooter_speed = 25,
        !.scooter_groups =
            <<[NoGroup EXCEPT !.count = 2, !.activity_strategy = "scheduled",
                              !.max_distance_per_day_km = 500]>>]

\* scheduled scooters whose active window lies within one day, from 01:00 to
\* 02:00: they are outside it at time 0 and again from 02:00 on
WindowConfig ==
    [BaseConfig EXCEPT
        !.num_stations = 0,
        !.max_duration_seconds = 3 * HOUR,
        !.scooter_speed = 1,
        !.scooter_groups =
            <<[NoGroup EXCEPT !.count = 2, !.activity_strategy = "scheduled",
                              !.activity_start_hour = 1 * HOUR,
                              !.activity_end_hour = 2 * HOUR]>>]

\* scheduled scooters whose active window wraps across midnight, from 22:00
\* to 01:00: they are inside it at time 0 and outside it from 01:00 on
WrapConfig ==
    [WindowConfig EXCEPT
        !.scooter_groups =
            <<[NoGroup EXCEPT !.count = 2, !.activity_strategy = "scheduled",
                              !.activity_start_hour = 22 * HOUR,
                              !.activity_end_hour = 1 * HOUR]>>]

\* more than a day, scheduled scooters with a daily distance cap whose
\* active window, from 22:00 to 06:00, contains midnight
CapWrapConfig ==
    [DayConfig EXCEPT
        !.scooter_groups =
            <<[NoGroup EXCEPT !.count = 2, !.activity_strategy = "scheduled",
                              !.activity_start_hour = 22 * HOUR,
                              !.activity_end_hour = 6 * HOUR,
                              !.max_distance_per_day_km = 500]>>]

\* as DayConfig with an active window that begins at midnight
CapMidnightConfig ==
    [DayConfig EXCEPT
        !.scooter_groups =
            <<[NoGroup EXCEPT !.count = 2, !.activity_strategy = "scheduled",
                              !.activity_start_hour = 0,
                              !.max_distance_per_day_km = 500]>>]

\* a world that walks at random with one group of scheduled scooters whose
\* own movement strategy is Directed (no destination assigned: stay in
\* place), idle until 3.6 s, and one group without a strategy of its own
\* that is due for a swap at once
StrategyConfig ==
    [BaseConfig EXCEPT
        !.max_duration_seconds = 60 * TimeUnitsPerSecond,
        !.swap_threshold = 90,
        !.scooter_groups =
            <<[NoGroup EXCEPT !.count = 1, !.activity_strategy = "scheduled",
                              !.activity_start_hour = 36 * TimeUnitsPerSecond,
                              !.movement_strategy = "directed",
                              !.swap_threshold = 10],
              [NoGroup EXCEPT !.count = 1]>>]

\* as PreIdleConfig with a daily distance cap of one move for the scheduled
\* scooter: the way to the station uses it up before the scooter goes idle
PreIdleCapConfig ==
    [PreIdleConfig EXCEPT
        !.scooter_groups =
            <<[NoGroup EXCEPT !.count = 1, !.activity_strategy = "scheduled",
                              !.activity_start_hour = 36 * TimeUnitsPerSecond,
                              !.low_battery_threshold = 90,
                              !.max_distance_per_day_km = 100],
              [NoGroup EXCEPT !.count = 1, !.activity_strategy = "always_active",
                              !.speed = 500]>>]

\* max_duration_seconds = 0
ZeroDurationConfig ==
    [BaseConfig EXCEPT !.max_duration_seconds = 0, !.num_scooters = 2]

Configs == <<ContentionConfig, PreIdleConfig, EmptyStationConfig, DayConfig,
             ZeroDurationConfig>>

\* the configurations two engines are run side by side on
PairConfigs == <<PreIdleConfig, EmptyStationConfig, DayConfig, ZeroDurationConfig>>

Seeds == 0 .. MaxSeed

-----------------------------------------------------------------------------
(* State machine *)

WithSeed(cfg, seed) == [cfg EXCEPT !.random_seed = seed]

\* SimulationManager.__init__: no configuration, no engine, no task
NewManager ==
    [config |-> <<>>,
     task |-> None,
     session_id |-> None,
     speed_multiplier |-> TimeUnitsPerSecond,
     observers |-> <<>>,
     tasks |-> <<>>,
     stopping |-> {},
     running |-> None,
     sessions |-> 0,
     broadcast |-> <<>>,
     last_op |-> "none",
     last_result |-> "none",
     awaited |-> None,
     before |-> <<>>]

\* _notify_observers: every observer is called in registration order; an
\* exception an observer raises is caught and the loop goes on
RECURSIVE NotifyFrom(_, _, _)
NotifyFrom(observers, k, called) ==
    IF k > Len(observers) THEN [called |-> called, propagated |-> FALSE]
    ELSE NotifyFrom(observers, k + 1, Append(called, k))

notify_observers_raise_propagates(observers) ==
    LET raising == {k \in 1 .. Len(observers) : observers[k] = "raises"}
        first == CHOOSE k \in raising : \A j \in raising : k <= j
    IN  IF raising = {} THEN NotifyFrom(observers, 1, <<>>)
        ELSE [called |-> [k \in 1 .. first |-> k], propagated |-> TRUE]

notify_observers(observers) == NotifyFrom(observers, 1, <<>>)

Engine(cfg) == initialize(NewEngine(cfg))

Init ==
    \E c \in 1 .. Len(Configs), seed \in Seeds :
        /\ engines = [i \in {1} |-> Engine(WithSeed(Configs[c], seed))]
        /\ event_counter = Len(engines[1].queue)
        /\ manager = NewManager

EngineIds == DOMAIN engines

\* run_sync keeps stepping only while the status is RUNNING; step() itself
\* can be called in any status
CanStep(i) ==
    engines[i].run = "run_sync" => engines[i].status = "RUNNING"

Returned(e) == IF e.run = "run_sync" THEN "done" ELSE e.run

WithinMaxDuration_always(e, time) == TRUE

\* step(): "if time > self.config.max_duration_seconds" is false
WithinMaxDuration(e, time) == time <= e.config.max_duration_seconds

\* step() on an event of the given kind that is within max_duration_seconds
\* the follow-up of a BatterySwapEvent that found its take slot empty and
\* selected slots again (kept as history: the engine has no such record)
Reselected(event, new) ==
    IF event.kind = "BatterySwap"
    THEN {new[k] : k \in {j \in 1 .. Len(new) : new[j].event.kind = "BatterySwap"}}
    ELSE {}

StepProcess(i, kind) ==
    /\ CanStep(i)
    /\ \E e \in {engines[i]} : \E k \in MinIndices(e.queue) :
         \E entry \in {e.queue[k]} :
           /\ entry.event.kind = kind
           /\ WithinMaxDuration(e, entry.scheduled_time)
           /\ \E popped \in {[e EXCEPT !.queue = RemoveAt(@, k),
                                        !.current_time = entry.scheduled_time]} :
              \E r \in {process(popped, entry.event)} :
              \E n \in {notify_observers(e.observers)} :
                /\ engines' = [engines EXCEPT ![i] =
                      [r.e EXCEPT
                          !.event_count = @ + 1,
                          !.queue = schedule_many(@, event_counter, r.new),
                          !.metrics = sample_metrics(@, entry.scheduled_time),
                          !.notified = n.called,
                          !.reselected = @ \cup Reselected(entry.event, r.new),
                          !.run = IF n.propagated THEN Returned(e) ELSE @,
                          !.last_event = entry,
                          !.last_step = IF n.propagated THEN "raised" ELSE "processed"]]
                /\ event_counter' = event_counter + Len(r.new)

StepScooterMove(i) == StepProcess(i, "ScooterMove")
StepScooterArriveAtStation(i) == StepProcess(i, "ScooterArriveAtStation")
StepBatterySwap(i) == StepProcess(i, "BatterySwap")
StepBatteryChargingTick(i) == StepProcess(i, "BatteryChargingTick")
StepBatteryFullyCharged(i) == StepProcess(i, "BatteryFullyCharged")
StepScooterGoIdle(i) == StepProcess(i, "ScooterGoIdle")
StepScooterWakeUp(i) == StepProcess(i, "ScooterWakeUp")
StepScooterSwapThenIdle(i) == StepProcess(i, "ScooterSwapThenIdle")
StepDailyReset(i) == StepProcess(i, "DailyReset")

\* step() on an empty queue
StepQueueEmpty(i) ==
    LET e == engines[i]
    IN  /\ CanStep(i)
        /\ e.queue = <<>>
        /\ engines' = [engines EXCEPT ![i] =
              [e EXCEPT !.status = "COMPLETED", !.run = Returned(e),
                        !.last_step = "empty"]]
        /\ UNCHANGED event_counter

StepBeyondMaxDuration_keeps_status(i) ==
    LET e == engines[i]
    IN  /\ CanStep(i)
        /\ \E k \in MinIndices(e.queue) :
             /\ ~WithinMaxDuration(e, e.queue[k].scheduled_time)
             /\ engines' = [engines EXCEPT ![i] =
                   [e EXCEPT !.queue = RemoveAt(@, k),
                             !.run = Returned(e), !.last_event = e.queue[k],
                             !.last_step = "beyond"]]
        /\ UNCHANGED event_counter

\* step() when the next event lies beyond max_duration_seconds: the event
\* has been popped and is dropped
StepBeyondMaxDuration(i) ==
    LET e == engines[i]
    IN  /\ CanStep(i)
        /\ \E k \in MinIndices(e.queue) :
             /\ ~WithinMaxDuration(e, e.queue[k].scheduled_time)
             /\ engines' = [engines EXCEPT ![i] =
                   [e EXCEPT !.queue = RemoveAt(@, k), !.status = "COMPLETED",
                             !.run = Returned(e), !.last_event = e.queue[k],
                             !.last_step = "beyond"]]
        /\ UNCHANGED event_counter

Step(i) ==
    \/ StepScooterMove(i)
    \/ StepScooterArriveAtStation(i)
    \/ StepBatterySwap(i)
    \/ StepBatteryChargingTick(i)
    \/ StepBatteryFullyCharged(i)
    \/ StepScooterGoIdle(i)
    \/ StepScooterWakeUp(i)
    \/ StepScooterSwapThenIdle(i)
    \/ StepDailyReset(i)
    \/ StepQueueEmpty(i)
    \/ StepBeyondMaxDuration(i)

\* run_sync(): enter the loop
RunSync(i) ==
    /\ engines[i].run # "run_sync"
    /\ engines' = [engines EXCEPT ![i] = [@ EXCEPT !.status = "RUNNING", !.run = "run_sync"]]
    /\ UNCHANGED event_counter

\* engines stepped side by side: an engine is at most MaxSkew processed
\* events ahead of a later one and never ahead of an earlier one
WithinSkew(i) ==
    \A j \in EngineIds :
        /\ i < j => engines[i].event_count - engines[j].event_count < MaxSkew
        /\ j < i => engines[i].event_count < engines[j].event_count
                      \/ engines[j].status = "COMPLETED"

Next ==
    \E i \in EngineIds :
      /\ WithinSkew(i)
      /\ UNCHANGED manager
      /\
        \/ StepScooterMove(i)
        \/ StepScooterArriveAtStation(i)
        \/ StepBatterySwap(i)
        \/ StepBatteryChargingTick(i)
        \/ StepBatteryFullyCharged(i)
        \/ StepScooterGoIdle(i)
        \/ StepScooterWakeUp(i)
        \/ StepScooterSwapThenIdle(i)
        \/ StepDailyReset(i)
        \/ StepQueueEmpty(i)
        \/ StepBeyondMaxDuration(i)
        \/ RunSync(i)

Spec == Init /\ [][Next]_vars

\* two engines initialized one after the other from the same configuration
\* and seed; the second initialize() has reset the shared event counter
InitPair ==
    \E c \in 1 .. Len(PairConfigs), seed \in Seeds :
        /\ engines = [i \in {1, 2} |-> Engine(WithSeed(PairConfigs[c], seed))]
        /\ event_counter = Len(engines[2].queue)
        /\ manager = NewManager

SpecPair == InitPair /\ [][Next]_vars

\* the while loop of run_sync() calls step() again as long as it runs
LoopStep ==
    /\ \E i \in EngineIds : engines[i].run = "run_sync" /\ Step(i)
    /\ UNCHANGED manager

FairSpec == Spec /\ WF_vars(LoopStep)

-----------------------------------------------------------------------------
(* Engine life cycle (simulation_engine.py) *)

engine_pause(e) == IF e.status = "RUNNING" THEN [e EXCEPT !.status = "PAUSED"] ELSE e

engine_resume(e) == IF e.status = "PAUSED" THEN [e EXCEPT !.status = "RUNNING"] ELSE e

engine_stop(e) == [e EXCEPT !.status = "STOPPED"]

is_completed(e) == e.status \in {"COMPLETED", "STOPPED"}

reset_metrics_keeps_misses(m) ==
    [m EXCEPT !.swap_events = <<>>, !.wait_start_times = <<>>, !.wait_durations = <<>>,
              !.miss_rate_history = <<>>, !.last_sample_time = 0]

\* MetricsCollector.reset
reset_metrics(m) ==
    [m EXCEPT !.miss_events = <<>>, !.swap_events = <<>>, !.wait_start_times = <<>>,
              !.wait_durations = <<>>, !.miss_rate_history = <<>>, !.last_sample_time = 0]

\* SimulationEngine.reset: the metrics collector is cleared, world and
\* scheduler are rebuilt from the stored configuration and initialize() runs
\* again; the observer list is kept
reset(e) ==
    [initialize([NewEngine(e.config) EXCEPT !.metrics = reset_metrics(e.metrics),
                                            !.observers = e.observers])
        EXCEPT !.last_step = "reset"]

\* what a reset() is about to clear
Progress(e) ==
    [event_count |-> e.event_count, current_time |-> e.current_time,
     total_swaps |-> total_swaps(e.metrics), total_misses |-> total_misses(e.metrics)]

\* the engine used on its own: between two calls of step() or after
\* run_sync() its owner may stop or reset it and register observers
External(i) == engines[i].run # "run_sync"

Called(op, before) ==
    [NewManager EXCEPT !.last_op = op, !.last_result = "ok", !.before = before]

\* engine.reset()
EngineReset(i) ==
    /\ External(i)
    /\ engines' = [engines EXCEPT ![i] = reset(@)]
    /\ event_counter' = Len(engines'[i].queue)
    /\ manager' = Called("engine_reset", <<Progress(engines[i])>>)

\* engine.stop()
EngineStop(i) ==
    /\ External(i)
    /\ engines' = [engines EXCEPT ![i] = engine_stop(@)]
    /\ manager' = Called("engine_stop", <<>>)
    /\ UNCHANGED event_counter

\* engine.add_observer(observer), with an observer that returns or raises
EngineAddObserver(i) ==
    /\ External(i)
    /\ Len(engines[i].observers) < MaxObservers
    /\ \E kind \in {"ok", "raises"} :
         engines' = [engines EXCEPT ![i] = [@ EXCEPT !.observers = Append(@, kind)]]
    /\ manager' = Called("engine_add_observer", <<>>)
    /\ UNCHANGED event_counter

\* engine.remove_observer(observer)
EngineRemoveObserver(i) ==
    /\ External(i)
    /\ \E k \in 1 .. Len(engines[i].observers) :
         engines' = [engines EXCEPT ![i] = [@ EXCEPT !.observers = RemoveAt(@, k)]]
    /\ manager' = Called("engine_remove_observer", <<>>)
    /\ UNCHANGED event_counter

\* runs on the configurations that exercise the stations
StationConfigs == <<ContentionConfig, EmptyStationConfig, FullStationConfig,
                    PreIdleConfig>>

InitStation ==
    \E c \in 1 .. Len(StationConfigs), seed \in Seeds :
        /\ engines = <<Engine(WithSeed(StationConfigs[c], seed))>>
        /\ event_counter = Len(engines[1].queue)
        /\ manager = NewManager

NextStation ==
    \E i \in EngineIds : (Step(i) \/ RunSync(i)) /\ UNCHANGED manager

SpecStation == InitStation /\ [][NextStation]_vars

\* the metrics collector used on its own, as its unit tests use it: the
\* collector is the one of engine 1, whose clock gives the record times
\* reset_event_counter(), called once in the process while the engine has
\* pending events (by its owner, or by initialize() of another engine)
ResetEventCounter ==
    /\ manager = NewManager
    /\ event_counter > 0
    /\ \E i \in EngineIds : External(i) /\ engines[i].queue # <<>>
    /\ event_counter' = 0
    /\ manager' = Called("reset_event_counter", <<>>)
    /\ UNCHANGED engines

NextCounter ==
    \/ \E i \in EngineIds : (Step(i) \/ RunSync(i)) /\ UNCHANGED manager
    \/ ResetEventCounter

SpecCounter == InitStation /\ [][NextCounter]_vars

\* runs of scooters with the Scheduled activity strategy
ScheduleConfigs == <<WindowConfig, WrapConfig, DayConfig, CapWrapConfig,
                     CapMidnightConfig, StrategyConfig, PreIdleCapConfig>>

InitSchedule ==
    \E c \in 1 .. Len(ScheduleConfigs), seed \in Seeds :
        /\ engines = <<Engine(WithSeed(ScheduleConfigs[c], seed))>>
        /\ event_counter = Len(engines[1].queue)
        /\ manager = NewManager

NextSchedule == \E i \in EngineIds : (Step(i) \/ RunSync(i)) /\ UNCHANGED manager

SpecSchedule == InitSchedule /\ [][NextSchedule]_vars

InitMetrics ==
    /\ engines = <<Engine(ZeroDurationConfig)>>
    /\ event_counter = Len(engines[1].queue)
    /\ manager = NewManager

Recorded(m) == Len(m.miss_events) + Len(m.swap_events)

\* the simulated time that passes before a record
RecordDelays == {0, 5 * TimeUnitsPerSecond}

\* battery levels as <<charge, capacity>>: 0.8 and 1.0
RecordLevels == {<<4, 5>>, <<1, 1>>}

\* metrics.record_no_battery_miss(time, scooter_id, station_id)
RecordNoBatteryMiss ==
    /\ Recorded(engines[1].metrics) < MaxRecords
    /\ \E sid \in DOMAIN engines[1].scooters, stid \in DOMAIN engines[1].stations,
          delay \in RecordDelays :
         \E time \in {engines[1].current_time + delay} :
           engines' = [engines EXCEPT ![1] =
                         [@ EXCEPT !.current_time = time,
                                   !.metrics = record_no_battery_miss(@, time, sid, stid)]]
    /\ UNCHANGED <<event_counter, manager>>

\* metrics.record_swap(time, scooter_id, station_id, old_level, new_level)
RecordSwap ==
    /\ Recorded(engines[1].metrics) + 1 < MaxRecords
    /\ \E sid \in DOMAIN engines[1].scooters, stid \in DOMAIN engines[1].stations,
          delay \in RecordDelays, new_level \in RecordLevels :
         \E time \in {engines[1].current_time + delay} :
           engines' = [engines EXCEPT ![1] =
                         [@ EXCEPT !.current_time = time,
                                   !.metrics = record_swap(@, time, sid, stid,
                                                           <<1, 5>>, new_level)]]
    /\ UNCHANGED <<event_counter, manager>>

NextMetrics == RecordNoBatteryMiss \/ RecordSwap

SpecMetrics == InitMetrics /\ [][NextMetrics]_vars

\* an event refers to a scooter, station or battery the world does not hold
Dangling(e, ev) ==
    \/ /\ ev.kind \in {"ScooterMove", "ScooterArriveAtStation", "BatterySwap",
                       "ScooterGoIdle", "ScooterWakeUp", "ScooterSwapThenIdle"}
       /\ ev.scooter_id \notin DOMAIN e.scooters
    \/ /\ ev.kind \in {"ScooterArriveAtStation", "BatterySwap",
                       "BatteryChargingTick", "BatteryFullyCharged"}
       /\ ev.station_id \notin DOMAIN e.stations
    \/ /\ ev.kind = "BatteryFullyCharged"
       /\ ev.battery_id \notin DOMAIN e.batteries

\* the events of every kind built from the first id of each collection and
\* from an id just past its last one, at least one of them missing
DanglingEvents(e) ==
    LET S == {0, Cardinality(DOMAIN e.scooters)}
        T == {0, Cardinality(DOMAIN e.stations)}
        B == {0, Cardinality(DOMAIN e.batteries)}
        all == {ScooterMoveEvent(sid, [x |-> 0, y |-> 0]) : sid \in S}
               \cup {ScooterArriveAtStationEvent(sid, stid) : sid \in S, stid \in T}
               \cup {BatterySwapEvent(sid, stid, 0, 1) : sid \in S, stid \in T}
               \cup {BatteryChargingTickEvent(stid) : stid \in T}
               \cup {BatteryFullyChargedEvent(bid, stid, 0) : bid \in B, stid \in T}
               \cup {ScooterGoIdleEvent(sid, DAY) : sid \in S}
               \cup {ScooterWakeUpEvent(sid) : sid \in S}
               \cup {ScooterSwapThenIdleEvent(sid, DAY) : sid \in S}
    IN  {ev \in all : Dangling(e, ev)}

DanglingTimes == {0, 2 * TimeUnitsPerSecond}

\* scheduler.schedule(event, time) called by the owner of the engine before
\* the first step, with an event that refers to a missing entity
ScheduleDangling(i) ==
    /\ engines[i].run = "none"
    /\ engines[i].last_step = "none"
    /\ \A k \in 1 .. Len(engines[i].queue) :
         ~Dangling(engines[i], engines[i].queue[k].event)
    /\ \E ev \in DanglingEvents(engines[i]), time \in DanglingTimes :
         engines' = [engines EXCEPT ![i] =
                       [@ EXCEPT !.queue = schedule(@, event_counter, ev, time)]]
    /\ event_counter' = event_counter + 1
    /\ manager' = Called("schedule", <<>>)

\* runs in which one event that refers to a missing entity is enqueued
NextDangling ==
    \E i \in EngineIds :
        \/ (Step(i) \/ RunSync(i)) /\ manager' = NewManager
        \/ ScheduleDangling(i)

SpecDangling == Init /\ [][NextDangling]_vars

\* ---- runs with a completion signal scheduled by the owner --------------
\* A swap takes one battery from a station and leaves one, so a station that
\* makes scooters wait (no battery, or no empty slot) never charges anything:
\* a BatteryFullyChargedEvent meets a waiting scooter only when the owner of
\* the engine schedules one through scheduler.schedule.
ChargedConfigs == <<EmptyStationConfig, FullStationConfig>>

ChargedTimes == {60 * TimeUnitsPerSecond, 100 * TimeUnitsPerSecond}

\* the completion events that name a battery, a station and a slot of the world
ChargedEvents(e) ==
    {BatteryFullyChargedEvent(bid, stid, k) :
        bid \in {0, Cardinality(DOMAIN e.batteries) - 1},
        stid \in DOMAIN e.stations,
        k \in {0, e.config.slots_per_station - 1}}

InitCharged ==
    \E c \in 1 .. Len(ChargedConfigs), seed \in Seeds :
        /\ engines = <<Engine(WithSeed(ChargedConfigs[c], seed))>>
        /\ event_counter = Len(engines[1].queue)
        /\ manager = NewManager

\* scheduler.schedule(BatteryFullyChargedEvent(...), time) called by the
\* owner of the engine before the first step
ScheduleCharged(i) ==
    /\ engines[i].run = "none"
    /\ engines[i].last_step = "none"
    /\ \A k \in 1 .. Len(engines[i].queue) :
         engines[i].queue[k].event.kind # "BatteryFullyCharged"
    /\ \E ev \in ChargedEvents(engines[i]), time \in ChargedTimes :
         engines' = [engines EXCEPT ![i] =
                       [@ EXCEPT !.queue = schedule(@, event_counter, ev, time)]]
    /\ event_counter' = event_counter + 1
    /\ UNCHANGED manager

NextCharged ==
    \E i \in EngineIds :
        \/ (Step(i) \/ RunSync(i)) /\ UNCHANGED manager
        \/ ScheduleCharged(i)

SpecCharged == InitCharged /\ [][NextCharged]_vars

NextEngine ==
    \E i \in EngineIds :
        \/ (Step(i) \/ RunSync(i)) /\ manager' = NewManager
        \/ EngineReset(i)
        \/ EngineStop(i)
        \/ EngineAddObserver(i)
        \/ EngineRemoveObserver(i)

SpecEngine == Init /\ [][NextEngine]_vars

-----------------------------------------------------------------------------
(* Simulation manager (simulation_manager.py).  The engine the manager     *)
(* owns is engines[1]; engines is empty while the manager has no engine.   *)
(* manager.tasks holds every asyncio task created so far, in creation      *)
(* order.  A task is "created" until the event loop runs it for the first  *)
(* time, "batch" while it is inside its inner while loop (no other         *)
(* coroutine runs then: manager.running names it), "notify" while it is    *)
(* suspended in an observer's await, "sleep" while it is suspended in      *)
(* asyncio.sleep, and "done" afterwards.                                   *)

BATCH_SIZE == 100
MIN_SPEED == 1
MAX_SPEED == 100 * TimeUnitsPerSecond

\* one scooter that needs a swap after its first move, at a station without
\* batteries
QuickMissConfig ==
    [BaseConfig EXCEPT !.num_scooters = 1,
                       !.initial_batteries_per_station = 0,
                       !.swap_threshold = 90,
                       !.max_duration_seconds = 6 * TimeUnitsPerSecond]

\* the configurations handed to set_config
ManagerConfigs == <<QuickMissConfig, ZeroDurationConfig>>

\* arguments of set_speed, as multiples of 0.1
SpeedInputs == {0, TimeUnitsPerSecond}

NewTask ==
    [pc |-> "created", must_cancel |-> FALSE, events_processed |-> 0,
     batch_start_time |-> 0]

DoneTask == [NewTask EXCEPT !.pc = "done"]

InitManager ==
    /\ engines = <<>>
    /\ event_counter = 0
    /\ manager = NewManager

has_engine == engines # <<>>

\* SimulationManager.status
manager_status == IF has_engine THEN engines[1].status ELSE "IDLE"

Idle == manager.running = None

\* the command or task step that led to this state, for the properties
Done(op, result) ==
    [manager EXCEPT !.last_op = op, !.last_result = result, !.awaited = None,
                    !.before = <<>>, !.broadcast = <<>>]

set_config_unguarded(cfg) ==
    /\ Idle
    /\ engines' = <<Engine(cfg)>>
    /\ event_counter' = Len(engines'[1].queue)
    /\ manager' = [Done("set_config", "ok") EXCEPT !.config = <<cfg>>]

\* set_config(config)
set_config(cfg) ==
    /\ Idle
    /\ IF manager_status = "RUNNING"
       THEN /\ manager' = Done("set_config", "raised")
            /\ UNCHANGED <<engines, event_counter>>
       ELSE /\ engines' = <<Engine(cfg)>>
            /\ event_counter' = Len(engines'[1].queue)
            /\ manager' = [Done("set_config", "ok") EXCEPT !.config = <<cfg>>]

SetConfig == \E c \in 1 .. Len(ManagerConfigs) : set_config(ManagerConfigs[c])

\* asyncio.create_task(self._run_simulation())
create_task(m) ==
    [m EXCEPT !.tasks = Append(@, NewTask), !.task = Len(m.tasks) + 1]

start_unguarded ==
    /\ Idle
    /\ Len(manager.tasks) < MaxTasks
    /\ IF manager.config = <<>> \/ ~has_engine
       THEN manager' = Done("start", "raised")
       ELSE manager' = create_task([Done("start", "ok") EXCEPT
                                      !.sessions = @ + 1,
                                      !.session_id = manager.sessions + 1])
    /\ UNCHANGED <<engines, event_counter>>

\* start(): the session id is a fresh uuid4
start ==
    /\ Idle
    /\ IF manager.config = <<>> \/ ~has_engine \/ manager_status = "RUNNING"
       THEN manager' = Done("start", "raised")
       ELSE /\ Len(manager.tasks) < MaxTasks
            /\ manager' = create_task([Done("start", "ok") EXCEPT
                                         !.sessions = @ + 1,
                                         !.session_id = manager.sessions + 1])
    /\ UNCHANGED <<engines, event_counter>>

pause_unguarded ==
    /\ Idle
    /\ has_engine
    /\ engines' = [engines EXCEPT ![1] = [@ EXCEPT !.status = "PAUSED"]]
    /\ manager' = Done("pause", "ok")
    /\ UNCHANGED event_counter

\* pause()
pause ==
    /\ Idle
    /\ IF ~has_engine \/ manager_status # "RUNNING"
       THEN /\ manager' = Done("pause", "raised")
            /\ UNCHANGED engines
       ELSE /\ engines' = [engines EXCEPT ![1] = engine_pause(@)]
            /\ manager' = Done("pause", "ok")
    /\ UNCHANGED event_counter

\* resume()
resume ==
    /\ Idle
    /\ IF ~has_engine \/ manager_status # "PAUSED"
       THEN /\ manager' = Done("resume", "raised")
            /\ UNCHANGED engines
       ELSE /\ Len(manager.tasks) < MaxTasks
            /\ engines' = [engines EXCEPT ![1] = engine_resume(@)]
            /\ manager' = create_task(Done("resume", "ok"))
    /\ UNCHANGED event_counter

\* the end of stop() and reset(), after the task has been awaited
stop_engine(awaited, then_reset) ==
    /\ manager' = [Done(IF then_reset THEN "reset" ELSE "stop", "ok") EXCEPT
                      !.awaited = awaited,
                      !.stopping = @ \ {[task |-> awaited, then_reset |-> then_reset]},
                      !.before = IF has_engine THEN <<Progress(engines[1])>> ELSE <<>>]
    /\ engines' = IF ~has_engine THEN engines
                  ELSE IF then_reset THEN <<reset(engine_stop(engines[1]))>>
                  ELSE <<engine_stop(engines[1])>>
    /\ event_counter' = IF has_engine /\ then_reset
                        THEN Len(engines'[1].queue) ELSE event_counter

\* stop() and reset() up to "await self._task": a task that is not done is
\* cancelled and awaited, otherwise the call runs to its end
stop(then_reset) ==
    /\ Idle
    /\ IF manager.task # None /\ manager.tasks[manager.task].pc # "done"
       THEN /\ manager' = [Done("stop_begin", "ok") EXCEPT
                              !.tasks[manager.task].must_cancel = TRUE,
                              !.stopping = @ \cup {[task |-> manager.task,
                                                    then_reset |-> then_reset]}]
            /\ UNCHANGED <<engines, event_counter>>
       ELSE stop_engine(None, then_reset)

Stop == stop(FALSE)

Reset == stop(TRUE)

\* stop() and reset() resumed once the awaited task is done
StopResumed ==
    /\ Idle
    /\ \E call \in manager.stopping :
         /\ manager.tasks[call.task].pc = "done"
         /\ stop_engine(call.task, call.then_reset)

\* set_speed(multiplier)
set_speed(multiplier) ==
    /\ Idle
    /\ manager' = [Done("set_speed", "ok") EXCEPT
                      !.speed_multiplier = Max(MIN_SPEED, Min(MAX_SPEED, multiplier))]
    /\ UNCHANGED <<engines, event_counter>>

SetSpeed == \E m \in SpeedInputs : set_speed(m)

\* SimulationManager.step(), the debugging entry point
ManagerStep ==
    /\ Idle
    /\ \/ /\ ~has_engine
          /\ manager' = Done("step", "raised")
          /\ UNCHANGED <<engines, event_counter>>
       \/ /\ has_engine
          /\ Step(1)
          /\ manager' = Done("step", "ok")

\* the background task enters "while events_processed < 100"
BeginBatch(m, t, e) ==
    [m EXCEPT !.tasks[t] = [@ EXCEPT !.pc = "batch", !.events_processed = 0,
                                     !.batch_start_time = e.current_time],
              !.running = t]

\* tasks are run for the first time in creation order (the event loop's
\* ready queue is first in, first out); the order between a task's first
\* run and the other callbacks of the loop is left open
FirstCreated(t) ==
    /\ manager.tasks[t].pc = "created"
    /\ \A u \in 1 .. (t - 1) : manager.tasks[u].pc # "created"

\* _run_simulation up to its first batch
TaskBegin(t) ==
    /\ Idle
    /\ FirstCreated(t)
    /\ ~manager.tasks[t].must_cancel
    /\ IF ~has_engine
       THEN /\ manager' = [Done("task", "ok") EXCEPT !.tasks[t] = DoneTask]
            /\ UNCHANGED engines
       ELSE /\ engines' = [engines EXCEPT ![1] = [@ EXCEPT !.status = "RUNNING"]]
            /\ manager' = BeginBatch(Done("task", "ok"), t, engines[1])
    /\ UNCHANGED event_counter

\* one pass of the inner loop: step(), then the two break conditions; on
\* leaving the loop _broadcast_update starts and the task is suspended in
\* the first observer's await or, without observers, in asyncio.sleep
TaskStep(t) ==
    /\ manager.running = t
    /\ Step(1)
    /\ LET task == manager.tasks[t]
           e == engines'[1]
           stepped == e.last_step = "processed"
           n == IF stepped THEN task.events_processed + 1 ELSE task.events_processed
           leave == \/ ~stepped
                    \/ n >= BATCH_SIZE
                    \/ e.current_time - task.batch_start_time >= manager.speed_multiplier
       IN  manager' =
             IF leave
             THEN [Done("task", "ok") EXCEPT
                      !.tasks[t] = [NewTask EXCEPT
                          !.pc = IF manager.observers = <<>> THEN "sleep" ELSE "notify",
                          !.must_cancel = task.must_cancel],
                      !.running = None]
             ELSE [Done("task", "ok") EXCEPT !.tasks[t].events_processed = n]

\* the rest of _broadcast_update, up to asyncio.sleep
TaskNotified(t) ==
    /\ Idle
    /\ manager.tasks[t].pc = "notify"
    /\ ~manager.tasks[t].must_cancel
    /\ manager' = [Done("task", "ok") EXCEPT
                      !.tasks[t].pc = "sleep",
                      !.broadcast = notify_observers(manager.observers).called]
    /\ UNCHANGED <<engines, event_counter>>

\* after asyncio.sleep: "if self._engine.is_completed: break", then the
\* condition of the outer while loop
TaskWake(t) ==
    /\ Idle
    /\ manager.tasks[t].pc = "sleep"
    /\ ~manager.tasks[t].must_cancel
    /\ manager' = IF is_completed(engines[1]) \/ engines[1].status # "RUNNING"
                  THEN [Done("task", "ok") EXCEPT !.tasks[t] = DoneTask]
                  ELSE BeginBatch(Done("task", "ok"), t, engines[1])
    /\ UNCHANGED <<engines, event_counter>>

TaskCancelled_half_event(t) ==
    /\ Idle
    /\ manager.tasks[t].must_cancel
    /\ \/ FirstCreated(t)
       \/ manager.tasks[t].pc \in {"notify", "sleep"}
    /\ manager' = [Done("cancelled", "ok") EXCEPT !.tasks[t] = DoneTask]
    /\ engines' =
         IF manager.tasks[t].pc = "created" THEN engines
         ELSE IF engines[1].queue = <<>>
         THEN [engines EXCEPT ![1] = [@ EXCEPT !.status = "STOPPED"]]
         ELSE [engines EXCEPT ![1] =
                 [@ EXCEPT !.status = "STOPPED",
                           !.current_time = engines[1].queue[1].scheduled_time,
                           !.queue = Tail(@)]]
    /\ UNCHANGED event_counter

\* CancelledError is raised in the task where it is suspended: a task that
\* never ran ends at once, otherwise "except asyncio.CancelledError" runs
TaskCancelled(t) ==
    /\ Idle
    /\ manager.tasks[t].must_cancel
    /\ \/ FirstCreated(t)
       \/ manager.tasks[t].pc \in {"notify", "sleep"}
    /\ manager' = [Done("cancelled", "ok") EXCEPT !.tasks[t] = DoneTask]
    /\ engines' = IF manager.tasks[t].pc = "created" THEN engines
                  ELSE [engines EXCEPT ![1] = [@ EXCEPT !.status = "STOPPED"]]
    /\ UNCHANGED event_counter

\* add_observer / remove_observer of the manager
AddObserver ==
    /\ Idle
    /\ Len(manager.observers) < MaxObservers
    /\ \E kind \in {"ok", "raises"} :
         manager' = [Done("add_observer", "ok") EXCEPT !.observers = Append(@, kind)]
    /\ UNCHANGED <<engines, event_counter>>

RemoveObserver ==
    /\ Idle
    /\ \E k \in 1 .. Len(manager.observers) :
         manager' = [Done("remove_observer", "ok") EXCEPT !.observers = RemoveAt(@, k)]
    /\ UNCHANGED <<engines, event_counter>>

Task ==
    \E t \in 1 .. Len(manager.tasks) :
        \/ TaskBegin(t)
        \/ TaskStep(t)
        \/ TaskNotified(t)
        \/ TaskWake(t)
        \/ TaskCancelled(t)

\* the life cycle commands and the background tasks
NextManager ==
    \/ SetConfig
    \/ start
    \/ pause
    \/ resume
    \/ Stop
    \/ Reset
    \/ StopResumed
    \/ Task

SpecManager == InitManager /\ [][NextManager]_vars

\* runs that are broadcast to observers, with speed changes and single
\* steps
NextObservers ==
    \/ SetConfig
    \/ start
    \/ SetSpeed
    \/ ManagerStep
    \/ AddObserver
    \/ RemoveObserver
    \/ Task

SpecObservers == InitManager /\ [][NextObservers]_vars

-----------------------------------------------------------------------------
(* Properties *)

\* the step from engine record a to b processed an event
Processed(a, b) == b.event_count = a.event_count + 1

\* the last step performed a battery swap
SwapJustDone(e) ==
    /\ e.last_step = "processed"
    /\ e.last_event.event.kind = "BatterySwap"
    /\ e.metrics.swap_events # <<>>
    /\ LET swap == e.metrics.swap_events[Len(e.metrics.swap_events)]
       IN  /\ swap.timestamp = e.last_event.scheduled_time
           /\ swap.scooter_id = e.last_event.event.scooter_id

\* scooters and slots that hold battery b
ScooterHolders(e, b) == {s \in DOMAIN e.scooters : e.scooters[s].battery_id = b}

SlotHolders(e, b) ==
    {p \in (DOMAIN e.stations) \X (0 .. (e.config.slots_per_station - 1)) :
        e.stations[p[1]].slots[p[2]].battery_id = b}

\* C1: within a run of one engine the events are dispatched in nondecreasing
\* scheduled_time, and an event is never dispatched while an event with the
\* same scheduled_time that was scheduled before it is still pending
DispatchOrder ==
    [][\A i \in DOMAIN engines :
          LET a == engines[i]
              b == engines'[i]
          IN  Processed(a, b) =>
                /\ a.last_step = "processed" =>
                      a.last_event.scheduled_time <= b.last_event.scheduled_time
                /\ \A j, k \in 1 .. Len(a.queue) :
                      (a.queue[k] = b.last_event /\ j < k) =>
                          a.queue[j].scheduled_time # b.last_event.scheduled_time]_vars

\* C2: world.current_time never decreases from one step to the next
TimeNeverDecreases ==
    [][\A i \in DOMAIN engines :
          engines[i].current_time <= engines'[i].current_time]_vars

Observed(e) ==
    [event_count |-> e.event_count, simulation_time |-> e.current_time,
     metrics |-> e.metrics, scooters |-> e.scooters,
     batteries |-> e.batteries, stations |-> e.stations]

Dispatched(e) ==
    [event |-> e.last_event.event, scheduled_time |-> e.last_event.scheduled_time]

\* C3: two engines built from the same configuration and seed that have
\* processed the same number of events have dispatched the same event at
\* the same scheduled time and agree on simulation time, metrics and every
\* entity; when both runs are over they have processed equally many events
Determinism ==
    \A i, j \in DOMAIN engines :
        LET a == engines[i]
            b == engines[j]
        IN  /\ a.event_count = b.event_count => Observed(a) = Observed(b)
            /\ (a.event_count = b.event_count /\ a.last_step = "processed"
                  /\ b.last_step = "processed") => Dispatched(a) = Dispatched(b)
            /\ (a.run = "done" /\ b.run = "done") => a.event_count = b.event_count

\* both engines have just performed the same swap, dispatched under
\* different event ids
DeterminismWitness ==
    /\ DOMAIN engines = {1, 2}
    /\ engines[1].event_count = engines[2].event_count
    /\ SwapJustDone(engines[1])
    /\ SwapJustDone(engines[2])
    /\ engines[1].last_event.event_id # engines[2].last_event.event_id

\* C4: the battery a scooter carries is IN_SCOOTER with that scooter's id,
\* and the battery in slot k of a station is IN_STATION with that station's
\* id and slot_index k
BackReferences ==
    \A i \in DOMAIN engines :
        LET e == engines[i]
        IN  /\ \A s \in DOMAIN e.scooters :
                 LET b == e.scooters[s].battery_id
                 IN  /\ b \in DOMAIN e.batteries
                     /\ e.batteries[b].location = "IN_SCOOTER"
                     /\ e.batteries[b].scooter_id = s
            /\ \A st \in DOMAIN e.stations : \A k \in DOMAIN e.stations[st].slots :
                 LET b == e.stations[st].slots[k].battery_id
                 IN  b # None =>
                       /\ b \in DOMAIN e.batteries
                       /\ e.batteries[b].location = "IN_STATION"
                       /\ e.batteries[b].station_id = st
                       /\ e.batteries[b].slot_index = k

\* a swap has just exchanged the batteries of a scooter and a slot
BackReferencesWitness ==
    \E i \in DOMAIN engines :
        /\ SwapJustDone(engines[i])
        /\ LET e == engines[i]
               ev == e.last_event.event
           IN  e.stations[ev.station_id].slots[ev.deposit_to_slot].battery_id # None

\* C5: no battery is carried by a scooter and stored in a slot at once,
\* carried by two scooters, or stored in two slots
NoBatteryHeldTwice ==
    \A i \in DOMAIN engines : \A b \in DOMAIN engines[i].batteries :
        Cardinality(ScooterHolders(engines[i], b))
          + Cardinality(SlotHolders(engines[i], b)) <= 1

\* a swap found its take slot emptied by another scooter and selected anew
NoBatteryHeldTwiceWitness ==
    \E i \in DOMAIN engines :
        LET e == engines[i]
            ev == e.last_event.event
        IN  /\ e.last_step = "processed"
            /\ ev.kind = "BatterySwap"
            /\ ~SwapJustDone(e)
            /\ e.scooters[ev.scooter_id].state = "SWAPPING"
            /\ e.stations[ev.station_id].slots[ev.take_from_slot].battery_id = None

\* C6: every battery is carried by exactly one scooter or held in exactly
\* one slot, and a battery that is IN_STATION is the battery its slot holds
NoBatteryLost ==
    \A i \in DOMAIN engines : \A b \in DOMAIN engines[i].batteries :
        LET e == engines[i]
            bat == e.batteries[b]
        IN  /\ Cardinality(ScooterHolders(e, b)) + Cardinality(SlotHolders(e, b)) = 1
            /\ bat.location = "IN_STATION" =>
                  /\ bat.station_id \in DOMAIN e.stations
                  /\ has_slot(e.stations[bat.station_id], bat.slot_index)
                  /\ e.stations[bat.station_id].slots[bat.slot_index].battery_id = b

\* C7: 0 <= current_charge_kwh <= capacity_kwh for every battery
ChargeWithinCapacity ==
    \A i \in DOMAIN engines : \A b \in DOMAIN engines[i].batteries :
        /\ 0 <= engines[i].batteries[b].current_charge_kwh
        /\ engines[i].batteries[b].current_charge_kwh
             <= engines[i].batteries[b].capacity_kwh

\* a move has drained its scooter's battery to 0 while a deposited battery
\* has been charged to capacity
ChargeWithinCapacityWitness ==
    \E i \in DOMAIN engines :
        LET e == engines[i]
            ev == e.last_event.event
        IN  /\ e.last_step = "processed"
            /\ ev.kind = "ScooterMove"
            /\ e.batteries[e.scooters[ev.scooter_id].battery_id].current_charge_kwh = 0
            /\ \E b \in DOMAIN e.batteries :
                 /\ e.batteries[b].location = "IN_STATION"
                 /\ e.batteries[b].current_charge_kwh = e.batteries[b].capacity_kwh
                 /\ b >= Cardinality(DOMAIN e.stations) * InitialPerStation(e.config)

\* C8: when every station lies inside the grid, every scooter does
ScootersInGrid ==
    \A i \in DOMAIN engines :
        LET e == engines[i]
        IN  (\A st \in DOMAIN e.stations :
                InGrid(e.stations[st].position, e.grid_width, e.grid_height))
            => \A s \in DOMAIN e.scooters :
                InGrid(e.scooters[s].position, e.grid_width, e.grid_height)

\* a random-walk move has ended on the far edge of the grid while another
\* scooter is seeking a station
ScootersInGridWitness ==
    \E i \in DOMAIN engines :
        LET e == engines[i]
            ev == e.last_event.event
        IN  /\ e.last_step = "processed"
            /\ ev.kind = "ScooterMove"
            /\ e.scooters[ev.scooter_id].state = "MOVING"
            /\ e.scooters[ev.scooter_id].position.x = e.grid_width - 1
            /\ \E s \in DOMAIN e.scooters : e.scooters[s].state = "TRAVELING_TO_STATION"

\* the next event of the queue lies beyond max_duration_seconds
NextIsBeyond(e) ==
    \E k \in MinIndices(e.queue) :
        e.queue[k].scheduled_time > e.config.max_duration_seconds

\* C9: no event scheduled beyond max_duration_seconds is processed and the
\* simulation time stays within it; a step that finds such an event next
\* sets COMPLETED and leaves current_time, the entities, the metrics and the
\* event count alone
MaxDurationRespected ==
    [][\A i \in DOMAIN engines :
          LET a == engines[i]
              b == engines'[i]
          IN  /\ b.current_time <= b.config.max_duration_seconds
              /\ b.event_count # a.event_count =>
                    b.last_event.scheduled_time <= b.config.max_duration_seconds
              /\ (NextIsBeyond(a) /\ b.queue # a.queue) =>
                    /\ b.status = "COMPLETED"
                    /\ b.current_time = a.current_time
                    /\ b.batteries = a.batteries
                    /\ b.stations = a.stations
                    /\ b.scooters = a.scooters
                    /\ b.metrics = a.metrics
                    /\ b.event_count = a.event_count]_vars

\* a run that has processed events was completed by an event beyond the
\* maximum duration
MaxDurationRespectedWitness ==
    \E i \in DOMAIN engines :
        /\ engines[i].last_step = "beyond"
        /\ engines[i].status = "COMPLETED"
        /\ engines[i].event_count > 0
        /\ engines[i].last_event.scheduled_time
             > engines[i].config.max_duration_seconds

\* C10: run_sync() returns, and with status COMPLETED
RunSyncTerminates ==
    (engines[1].run = "run_sync")
        ~> (engines[1].run = "done" /\ engines[1].status = "COMPLETED")

\* run_sync() has returned after step() found the queue empty
RunSyncTerminatesWitness ==
    /\ engines[1].run = "done"
    /\ engines[1].status = "COMPLETED"
    /\ engines[1].last_step = "empty"
    /\ engines[1].event_count > 0

\* C11: right after reset(), whatever the engine had done and whatever its
\* status was, current_time, event_count, total_swaps and total_misses are 0
ResetLaw ==
    \A i \in DOMAIN engines :
        manager.last_op \in {"engine_reset", "reset"} =>
            /\ engines[i].current_time = 0
            /\ engines[i].event_count = 0
            /\ total_swaps(engines[i].metrics) = 0
            /\ total_misses(engines[i].metrics) = 0

\* a reset of an engine that had processed events and recorded swaps and
\* misses
ResetLawWitness ==
    /\ manager.last_op = "engine_reset"
    /\ manager.before # <<>>
    /\ manager.before[1].event_count > 0
    /\ manager.before[1].current_time > 0
    /\ manager.before[1].total_swaps > 0
    /\ manager.before[1].total_misses > 0

\* C12: a start() made while no configuration is set or while the status is
\* RUNNING raises, creates no task and leaves session_id alone; any other
\* start() assigns a session id never used before and creates exactly one
\* task, which has not run yet
StartContract ==
    [][manager'.last_op = "start" =>
         IF manager.config = <<>> \/ manager_status = "RUNNING"
         THEN /\ manager'.last_result = "raised"
              /\ manager'.tasks = manager.tasks
              /\ manager'.task = manager.task
              /\ manager'.session_id = manager.session_id
              /\ engines' = engines
         ELSE /\ manager'.last_result = "ok"
              /\ Len(manager'.tasks) = Len(manager.tasks) + 1
              /\ SubSeq(manager'.tasks, 1, Len(manager.tasks)) = manager.tasks
              /\ manager'.tasks[Len(manager'.tasks)].pc = "created"
              /\ manager'.task = Len(manager'.tasks)
              /\ manager'.session_id # manager.session_id
              /\ manager'.session_id > manager.sessions
              /\ engines' = engines]_vars

\* a start() refused because the session started before is running
StartContractWitness ==
    /\ manager.last_op = "start"
    /\ manager.last_result = "raised"
    /\ manager.config # <<>>
    /\ manager_status = "RUNNING"
    /\ manager.session_id # None
    /\ \E t \in 1 .. Len(manager.tasks) : manager.tasks[t].pc = "sleep"

\* tasks that can still call step(): not finished and not cancelled
LiveTasks ==
    {t \in 1 .. Len(manager.tasks) :
        manager.tasks[t].pc # "done" /\ ~manager.tasks[t].must_cancel}

\* C13: at any time at most one background task exists that can still
\* process events
SingleLoop == Cardinality(LiveTasks) <= 1

\* C14: pause() goes through exactly when the status is RUNNING, resume()
\* exactly when it is PAUSED; a refused call raises and leaves the engine
\* (status, world, scheduler) and the tasks as they were
PauseResumeContract ==
    [][/\ manager'.last_op = "pause" =>
            IF has_engine /\ manager_status = "RUNNING"
            THEN /\ manager'.last_result = "ok"
                 /\ engines' = <<[engines[1] EXCEPT !.status = "PAUSED"]>>
                 /\ manager'.tasks = manager.tasks
            ELSE /\ manager'.last_result = "raised"
                 /\ engines' = engines
                 /\ event_counter' = event_counter
                 /\ manager'.tasks = manager.tasks
                 /\ manager'.task = manager.task
       /\ manager'.last_op = "resume" =>
            IF has_engine /\ manager_status = "PAUSED"
            THEN /\ manager'.last_result = "ok"
                 /\ engines' = <<[engines[1] EXCEPT !.status = "RUNNING"]>>
            ELSE /\ manager'.last_result = "raised"
                 /\ engines' = engines
                 /\ event_counter' = event_counter
                 /\ manager'.tasks = manager.tasks
                 /\ manager'.task = manager.task]_vars

\* a pause() refused because the simulation is already paused, its task
\* still asleep
PauseResumeContractWitness ==
    /\ manager.last_op = "pause"
    /\ manager.last_result = "raised"
    /\ manager_status = "PAUSED"
    /\ manager.task # None
    /\ manager.tasks[manager.task].pc = "sleep"

\* C15: a set_config() made while the status is RUNNING raises and leaves
\* the stored configuration and the engine as they were; an accepted one
\* stores the configuration and replaces the engine by a freshly
\* initialized engine for it, in status IDLE
SetConfigContract ==
    [][manager'.last_op = "set_config" =>
         IF manager_status = "RUNNING"
         THEN /\ manager'.last_result = "raised"
              /\ manager'.config = manager.config
              /\ engines' = engines
              /\ event_counter' = event_counter
         ELSE /\ manager'.last_result = "ok"
              /\ manager'.config # <<>>
              /\ engines' = <<Engine(manager'.config[1])>>
              /\ engines'[1].status = "IDLE"
              /\ engines'[1].event_count = 0
              /\ engines'[1].current_time = 0
              /\ engines'[1].metrics = EmptyMetrics]_vars

\* a set_config() refused in the middle of a run
SetConfigContractWitness ==
    /\ manager.last_op = "set_config"
    /\ manager.last_result = "raised"
    /\ manager_status = "RUNNING"
    /\ engines[1].event_count > 0
    /\ engines[1].config = manager.config[1]

\* the world, the scheduler and the event count of the manager's engine
Applied(e) ==
    [scooters |-> e.scooters, batteries |-> e.batteries, stations |-> e.stations,
     metrics |-> e.metrics, queue |-> e.queue, current_time |-> e.current_time,
     event_count |-> e.event_count, rng |-> e.rng]

\* C16: a task is cancelled only where it is suspended (before its first
\* run, in an observer's await or in asyncio.sleep) and the cancellation
\* leaves world, scheduler and event count as they are; a step of a task
\* either applies one event completely (popped, clock advanced, follow-ups
\* enqueued, event count one higher) or leaves all of them untouched; when
\* stop() returns the awaited task is done and the status is STOPPED
StopBetweenEvents ==
    [][/\ manager'.last_op = "cancelled" =>
            \E t \in 1 .. Len(manager.tasks) :
                /\ manager.tasks[t].pc \in {"created", "notify", "sleep"}
                /\ manager.tasks[t].must_cancel
                /\ manager'.tasks[t].pc = "done"
                /\ Applied(engines'[1]) = Applied(engines[1])
                /\ manager.tasks[t].pc # "created" => engines'[1].status = "STOPPED"
       /\ (manager'.last_op = "task" /\ has_engine) =>
            \/ Applied(engines'[1]) = Applied(engines[1])
            \/ /\ engines'[1].event_count = engines[1].event_count
               /\ engines'[1].last_step \in {"empty", "beyond"}
               /\ engines'[1].status = "COMPLETED"
               /\ [Applied(engines'[1]) EXCEPT !.queue = <<>>]
                     = [Applied(engines[1]) EXCEPT !.queue = <<>>]
            \/ /\ engines'[1].event_count = engines[1].event_count + 1
               /\ engines'[1].last_step = "processed"
               /\ engines'[1].current_time = engines'[1].last_event.scheduled_time
               /\ \E k \in 1 .. Len(engines[1].queue) :
                    /\ engines[1].queue[k] = engines'[1].last_event
                    /\ RemoveAt(engines[1].queue, k)
                         = SubSeq(engines'[1].queue, 1, Len(engines[1].queue) - 1)
               /\ event_counter' = event_counter + Len(engines'[1].queue)
                                     - (Len(engines[1].queue) - 1)
               /\ engines'[1].status = engines[1].status
       /\ manager'.last_op = "stop" =>
            /\ has_engine => engines'[1].status = "STOPPED"
            /\ manager'.awaited # None => manager.tasks[manager'.awaited].pc = "done"]_vars

\* stop() has returned after cancelling a task in the middle of a run: the
\* task was asleep between two events with more events pending
StopBetweenEventsWitness ==
    /\ manager.last_op = "stop"
    /\ manager.awaited # None
    /\ manager.tasks[manager.awaited].pc = "done"
    /\ engines[1].status = "STOPPED"
    /\ engines[1].event_count > 0
    /\ engines[1].queue # <<>>
    /\ engines[1].last_step = "processed"

\* C17: a step that processes an event while observers that raise are
\* registered calls every registered observer, in order, returns true with
\* the event applied completely (popped, clock advanced, world updated,
\* follow-ups enqueued, event counted), and leaves the status and the
\* surrounding run as they were
RaisingObserverIgnored ==
    [][\A i \in DOMAIN engines :
         (i \in DOMAIN engines' /\ Processed(engines[i], engines'[i])) =>
            /\ engines'[i].notified
                 = [k \in 1 .. Len(engines[i].observers) |-> k]
            /\ engines'[i].last_step = "processed"
            /\ engines'[i].status = engines[i].status
            /\ engines'[i].run = engines[i].run
            /\ engines'[i].observers = engines[i].observers
            /\ \E k \in MinIndices(engines[i].queue) :
                 \E entry \in {engines[i].queue[k]} :
                 \E r \in {process([engines[i] EXCEPT
                                       !.queue = RemoveAt(@, k),
                                       !.current_time = entry.scheduled_time],
                                   entry.event)} :
                   /\ engines'[i].last_event = entry
                   /\ engines'[i].current_time = r.e.current_time
                   /\ engines'[i].scooters = r.e.scooters
                   /\ engines'[i].batteries = r.e.batteries
                   /\ engines'[i].stations = r.e.stations
                   /\ engines'[i].rng = r.e.rng
                   /\ engines'[i].queue
                        = schedule_many(r.e.queue, event_counter, r.new)]_vars

\* an event has just been processed with two observers registered, the
\* first of which raised
RaisingObserverIgnoredWitness ==
    /\ manager.last_op = "none"
    /\ engines[1].last_step = "processed"
    /\ engines[1].event_count > 1
    /\ Len(engines[1].observers) >= 2
    /\ engines[1].observers[1] = "raises"
    /\ Len(engines[1].notified) = Len(engines[1].observers)

\* C18: a step that processes an event of any kind whose scooter, station
\* or battery does not exist leaves scooters, batteries, stations, the
\* random stream and the recorded swaps, misses and waits as they were,
\* enqueues nothing (the queue only loses that event and no event id is
\* drawn), and the step returns true with status and run unchanged, so the
\* run goes on with the next event
DanglingEventIgnored ==
    [][\A i \in DOMAIN engines :
         (/\ i \in DOMAIN engines'
          /\ Processed(engines[i], engines'[i])
          /\ Dangling(engines[i], engines'[i].last_event.event)) =>
            /\ engines'[i].scooters = engines[i].scooters
            /\ engines'[i].batteries = engines[i].batteries
            /\ engines'[i].stations = engines[i].stations
            /\ engines'[i].rng = engines[i].rng
            /\ engines'[i].metrics.swap_events = engines[i].metrics.swap_events
            /\ engines'[i].metrics.miss_events = engines[i].metrics.miss_events
            /\ engines'[i].metrics.wait_start_times
                 = engines[i].metrics.wait_start_times
            /\ \E k \in MinIndices(engines[i].queue) :
                 /\ engines[i].queue[k] = engines'[i].last_event
                 /\ engines'[i].queue = RemoveAt(engines[i].queue, k)
            /\ event_counter' = event_counter
            /\ engines'[i].last_step = "processed"
            /\ engines'[i].status = engines[i].status
            /\ engines'[i].run = engines[i].run]_vars

\* in the middle of a run_sync() run an event naming a missing battery has
\* just been processed, and more events are pending
DanglingEventIgnoredWitness ==
    /\ engines[1].last_step = "processed"
    /\ engines[1].last_event.event.kind = "BatteryFullyCharged"
    /\ Dangling(engines[1], engines[1].last_event.event)
    /\ engines[1].run = "run_sync"
    /\ engines[1].event_count > 1
    /\ engines[1].queue # <<>>

PartialSwaps(m) == {k \in 1 .. Len(m.swap_events) : m.swap_events[k].was_partial}

\* C19: after every step partial_charge_misses equals the number of
\* recorded swaps with was_partial; a step that records a swap marks it
\* was_partial exactly when the new battery's level is below 0.9999, and
\* then records exactly one PARTIAL_CHARGE miss for the same time, scooter
\* and station, while a swap for a full battery records no miss
PartialChargeAccounting ==
    [][\A i \in DOMAIN engines : i \in DOMAIN engines' =>
         LET before == engines[i].metrics
             after == engines'[i].metrics
         IN  /\ partial_charge_misses(after) = Cardinality(PartialSwaps(after))
             /\ Len(after.swap_events) = Len(before.swap_events) + 1 =>
                  LET swap == after.swap_events[Len(after.swap_events)]
                      level == swap.new_battery_level
                  IN  /\ swap.was_partial <=> level[1] * 10000 < 9999 * level[2]
                      /\ after.miss_events =
                           IF swap.was_partial
                           THEN Append(before.miss_events,
                                       [timestamp |-> swap.timestamp,
                                        scooter_id |-> swap.scooter_id,
                                        station_id |-> swap.station_id,
                                        miss_type |-> "PARTIAL_CHARGE"])
                           ELSE before.miss_events]_vars

\* a run has recorded a swap for a full battery and a swap for a partly
\* charged one, with its miss
PartialChargeAccountingWitness ==
    /\ PartialSwaps(engines[1].metrics) # {}
    /\ \E k \in 1 .. Len(engines[1].metrics.swap_events) :
         ~engines[1].metrics.swap_events[k].was_partial
    /\ partial_charge_misses(engines[1].metrics) > 0

\* C20: current_miss_rate, the pair <<numerator, denominator>>, equals
\* total_misses / max(1, total_swaps) in every state, also while misses
\* have been recorded and no swap has happened yet
MissRateLaw ==
    \A i \in DOMAIN engines :
        LET m == engines[i].metrics
            rate == current_miss_rate(m)
            swaps == IF total_swaps(m) > 1 THEN total_swaps(m) ELSE 1
        IN  rate[1] * swaps = total_misses(m) * rate[2]

Waits(m) == {m.wait_start_times[p] : p \in 1 .. Len(m.wait_start_times)}

\* C21: a record of a NO_BATTERY miss of scooter s makes <<s, miss time>>
\* the one wait start of s and touches no other wait start and no duration;
\* a record of a swap of a scooter with a wait start appends exactly the
\* duration swap time minus wait start and removes that wait start only; a
\* swap of a scooter without a wait start leaves durations and wait starts
\* as they were
WaitBookkeeping ==
    [][\A i \in DOMAIN engines : i \in DOMAIN engines' =>
         LET before == engines[i].metrics
             after == engines'[i].metrics
         IN  /\ (/\ Len(after.swap_events) = Len(before.swap_events)
                 /\ Len(after.miss_events) = Len(before.miss_events) + 1) =>
                   LET miss == after.miss_events[Len(after.miss_events)]
                       s == miss.scooter_id
                   IN  /\ miss.miss_type = "NO_BATTERY"
                       /\ Cardinality(WaitStartOf(after, s)) = 1
                       /\ <<s, miss.timestamp>> \in Waits(after)
                       /\ {w \in Waits(after) : w[1] # s}
                            = {w \in Waits(before) : w[1] # s}
                       /\ after.wait_durations = before.wait_durations
             /\ Len(after.swap_events) = Len(before.swap_events) + 1 =>
                   LET swap == after.swap_events[Len(after.swap_events)]
                       s == swap.scooter_id
                       started == {w \in Waits(before) : w[1] = s}
                   IN  IF started # {}
                       THEN /\ \E w \in started :
                                 after.wait_durations
                                   = Append(before.wait_durations, swap.timestamp - w[2])
                            /\ Waits(after) = Waits(before) \ started
                            /\ WaitStartOf(after, s) = {}
                       ELSE /\ after.wait_durations = before.wait_durations
                            /\ after.wait_start_times = before.wait_start_times]_vars

\* a scooter has waited five seconds for its swap while the other scooter,
\* which never waited, has swapped too
WaitBookkeepingWitness ==
    /\ engines[1].metrics.wait_durations = <<5 * TimeUnitsPerSecond>>
    /\ engines[1].metrics.wait_start_times = <<>>
    /\ Len(engines[1].metrics.swap_events) = 2
    /\ engines[1].metrics.swap_events[1].scooter_id
         # engines[1].metrics.swap_events[2].scooter_id
    /\ no_battery_misses(engines[1].metrics) = 1

\* C22: a step appends at most one sample to miss_rate_history and changes
\* no earlier sample, and in the history every timestamp is at least
\* sample_interval later than the one before it (the first one at least
\* sample_interval after time 0), so the timestamps strictly increase
SamplerSpacing ==
    [][\A i \in DOMAIN engines : i \in DOMAIN engines' =>
         LET before == engines[i].metrics.miss_rate_history
             after == engines'[i].metrics.miss_rate_history
         IN  /\ \/ after = before
                \/ /\ Len(after) = Len(before) + 1
                   /\ SubSeq(after, 1, Len(before)) = before
                   /\ after[Len(after)][1] = engines'[i].current_time
                \/ engines'[i].last_step = "reset" /\ after = <<>>
             /\ \A k \in 1 .. Len(after) :
                  after[k][1] - (IF k = 1 THEN 0 ELSE after[k - 1][1])
                     >= SAMPLE_INTERVAL]_vars

\* a run has taken three samples, the last of them more than one interval
\* after the one before
SamplerSpacingWitness ==
    /\ Len(engines[1].metrics.miss_rate_history) >= 3
    /\ engines[1].metrics.miss_rate_history[3][1]
         - engines[1].metrics.miss_rate_history[2][1] > SAMPLE_INTERVAL
    /\ engines[1].metrics.last_sample_time = engines[1].current_time

\* the step has processed an event of this kind that names existing entities
Handled(i, kind) ==
    /\ i \in DOMAIN engines /\ i \in DOMAIN engines'
    /\ Processed(engines[i], engines'[i])
    /\ engines'[i].last_event.event.kind = kind
    /\ ~Dangling(engines[i], engines'[i].last_event.event)

\* the entries a step has added to the queue
Enqueued(i) ==
    SubSeq(engines'[i].queue, Len(engines[i].queue), Len(engines'[i].queue))

Occupied(st) == {k \in SlotIndices(st) : st.slots[k].battery_id # None}

\* C23: an arrival at a station that holds a battery and has an empty slot
\* makes the scooter SWAPPING, records no miss and schedules exactly one
\* BatterySwapEvent, taking from the best-battery slot and depositing to the
\* first empty slot, SWAP_DURATION later; any other arrival makes the scooter
\* WAITING_FOR_BATTERY, records one NO_BATTERY miss and schedules nothing
ArrivalOutcome ==
    [][\A i \in DOMAIN engines : Handled(i, "ScooterArriveAtStation") =>
         LET ev == engines'[i].last_event.event
             sid == ev.scooter_id
             st == engines[i].stations[ev.station_id]
             empty == SlotIndices(st) \ Occupied(st)
             now == engines'[i].last_event.scheduled_time
             before == engines[i].metrics
             after == engines'[i].metrics
         IN  IF Occupied(st) # {} /\ empty # {}
             THEN /\ engines'[i].scooters[sid].state = "SWAPPING"
                  /\ after.miss_events = before.miss_events
                  /\ Len(Enqueued(i)) = 1
                  /\ Enqueued(i)[1].scheduled_time = now + SWAP_DURATION
                  /\ Enqueued(i)[1].event =
                       BatterySwapEvent(sid, ev.station_id,
                                        get_best_battery_slot(st, engines[i].batteries),
                                        CHOOSE k \in empty : \A j \in empty : k <= j)
             ELSE /\ engines'[i].scooters[sid].state = "WAITING_FOR_BATTERY"
                  /\ after.miss_events =
                       Append(before.miss_events,
                              [timestamp |-> now, scooter_id |-> sid,
                               station_id |-> ev.station_id,
                               miss_type |-> "NO_BATTERY"])
                  /\ Enqueued(i) = <<>>]_vars

\* a scooter has just arrived at a station that holds batteries in all its
\* slots and waits
ArrivalOutcomeWitness ==
    /\ engines[1].last_step = "processed"
    /\ engines[1].last_event.event.kind = "ScooterArriveAtStation"
    /\ engines[1].scooters[engines[1].last_event.event.scooter_id].state
         = "WAITING_FOR_BATTERY"
    /\ Occupied(engines[1].stations[engines[1].last_event.event.station_id]) # {}
    /\ no_battery_misses(engines[1].metrics) > 0

\* the step has processed a BatterySwapEvent that exchanged batteries
Swapped(i) ==
    /\ Handled(i, "BatterySwap")
    /\ Len(engines'[i].metrics.swap_events) = Len(engines[i].metrics.swap_events) + 1

\* C24: a swap that is carried out leaves the scooter MOVING, without
\* targets, carrying the battery that was in the take slot; its former
\* battery is in the station, in the deposit slot, which is charging; the
\* take slot is empty and not charging; no charge has changed, and every
\* other scooter, slot and battery is as it was
SwapExchange ==
    [][\A i \in DOMAIN engines : Swapped(i) =>
         LET ev == engines'[i].last_event.event
             sid == ev.scooter_id
             stid == ev.station_id
             take == ev.take_from_slot
             dep == ev.deposit_to_slot
             old == engines[i].scooters[sid].battery_id
             new == engines[i].stations[stid].slots[take].battery_id
             scooter == engines'[i].scooters[sid]
         IN  /\ scooter = [engines[i].scooters[sid] EXCEPT
                              !.battery_id = new, !.state = "MOVING",
                              !.target_station_id = None,
                              !.target_position = NonePos,
                              !.idle_until = None]
             /\ engines'[i].batteries[new] =
                  [engines[i].batteries[new] EXCEPT
                      !.location = "IN_SCOOTER", !.scooter_id = sid,
                      !.station_id = None, !.slot_index = None]
             /\ engines'[i].batteries[old] =
                  [engines[i].batteries[old] EXCEPT
                      !.location = "IN_STATION", !.scooter_id = None,
                      !.station_id = stid, !.slot_index = dep]
             /\ engines'[i].stations[stid].slots[dep]
                  = [battery_id |-> old, is_charging |-> TRUE]
             /\ engines'[i].stations[stid].slots[take]
                  = [battery_id |-> None, is_charging |-> FALSE]
             /\ \A s \in DOMAIN engines[i].scooters \ {sid} :
                  engines'[i].scooters[s] = engines[i].scooters[s]
             /\ \A b \in DOMAIN engines[i].batteries \ {old, new} :
                  engines'[i].batteries[b] = engines[i].batteries[b]
             /\ \A t \in DOMAIN engines[i].stations :
                  \A k \in SlotIndices(engines[i].stations[t]) :
                     (t # stid \/ k \notin {take, dep}) =>
                        engines'[i].stations[t].slots[k]
                           = engines[i].stations[t].slots[k]]_vars

\* a swap has just given a scooter a partly charged battery that an earlier
\* swap had deposited, with another scooter at the station
SwapExchangeWitness ==
    /\ engines[1].last_step = "processed"
    /\ engines[1].last_event.event.kind = "BatterySwap"
    /\ Len(engines[1].metrics.swap_events) >= 2
    /\ engines[1].metrics.swap_events[Len(engines[1].metrics.swap_events)].timestamp
         = engines[1].current_time
    /\ engines[1].metrics.swap_events[Len(engines[1].metrics.swap_events)].was_partial
    /\ \E s \in DOMAIN engines[1].scooters : engines[1].scooters[s].state = "SWAPPING"

\* C25: when a swap is carried out, the deposit slot it writes the old
\* battery into was empty just before and is not the take slot
DepositSlotFree ==
    [][\A i \in DOMAIN engines : Swapped(i) =>
         LET ev == engines'[i].last_event.event
             st == engines[i].stations[ev.station_id]
         IN  /\ has_slot(st, ev.deposit_to_slot)
             /\ st.slots[ev.deposit_to_slot].battery_id = None
             /\ ev.deposit_to_slot # ev.take_from_slot]_vars

\* the BatterySwapEvent being processed finds its take slot empty
TakeSlotEmpty(i) ==
    LET ev == engines'[i].last_event.event
        st == engines[i].stations[ev.station_id]
    IN  \/ ~has_slot(st, ev.take_from_slot)
        \/ st.slots[ev.take_from_slot].battery_id = None

\* the outcome of a BatterySwapEvent that finds its take slot empty: with a
\* battery and an empty slot in the station it enqueues one BatterySwapEvent
\* for the best-battery slot and the first empty slot, SWAP_DURATION later,
\* and changes nothing else; without them the scooter becomes
\* WAITING_FOR_BATTERY with one NO_BATTERY miss and nothing enqueued
ReselectionOutcome(i) ==
    LET ev == engines'[i].last_event.event
        sid == ev.scooter_id
        st == engines[i].stations[ev.station_id]
        best == get_best_battery_slot(st, engines[i].batteries)
        free == get_empty_slot(st)
        now == engines'[i].last_event.scheduled_time
    IN  /\ engines'[i].batteries = engines[i].batteries
        /\ engines'[i].stations = engines[i].stations
        /\ engines'[i].metrics.swap_events = engines[i].metrics.swap_events
        /\ IF best # None /\ free # None
           THEN /\ Len(Enqueued(i)) = 1
                /\ Enqueued(i)[1].event
                     = BatterySwapEvent(sid, ev.station_id, best, free)
                /\ Enqueued(i)[1].scheduled_time = now + SWAP_DURATION
                /\ engines'[i].scooters = engines[i].scooters
                /\ engines'[i].metrics.miss_events
                     = engines[i].metrics.miss_events
           ELSE /\ Enqueued(i) = <<>>
                /\ engines'[i].scooters[sid].state = "WAITING_FOR_BATTERY"
                /\ engines'[i].metrics.miss_events
                     = Append(engines[i].metrics.miss_events,
                              [timestamp |-> now, scooter_id |-> sid,
                               station_id |-> ev.station_id,
                               miss_type |-> "NO_BATTERY"])

\* C26: a BatterySwapEvent that finds its take slot empty selects slots
\* again as above, and the BatterySwapEvent it enqueued with the re-selected
\* slots, when it is processed, carries the swap out with those slots
ReselectedSwapCarriedOut ==
    [][\A i \in DOMAIN engines : Handled(i, "BatterySwap") =>
         LET ev == engines'[i].last_event.event
             now == engines'[i].last_event.scheduled_time
         IN  /\ TakeSlotEmpty(i) => ReselectionOutcome(i)
             /\ EventAt(ev, now) \in engines[i].reselected =>
               /\ ~TakeSlotEmpty(i)
               /\ Swapped(i)
               /\ engines'[i].scooters[ev.scooter_id].battery_id
                    = engines[i].stations[ev.station_id].slots[ev.take_from_slot].battery_id
               /\ engines'[i].stations[ev.station_id].slots[ev.deposit_to_slot].battery_id
                    = engines[i].scooters[ev.scooter_id].battery_id]_vars

\* the scooters that wait for a battery at the station of the
\* BatteryFullyChargedEvent being processed
WaitingAt(i) ==
    LET ev == engines'[i].last_event.event
    IN  {s \in DOMAIN engines[i].scooters :
            /\ engines[i].scooters[s].state = "WAITING_FOR_BATTERY"
            /\ engines[i].scooters[s].target_station_id = ev.station_id}

\* the BatteryFullyChargedEvent being processed sets its battery to exactly
\* capacity and its slot's is_charging to false
ChargedSignal(i) ==
    LET ev == engines'[i].last_event.event
        st == engines'[i].stations[ev.station_id]
        b == engines'[i].batteries[ev.battery_id]
    IN  /\ b.current_charge_kwh = b.capacity_kwh
        /\ has_slot(st, ev.slot_index) => ~st.slots[ev.slot_index].is_charging

\* the BatteryFullyChargedEvent being processed wakes the waiting scooter
\* with the smallest id and nobody else: that scooter becomes SWAPPING with
\* one BatterySwapEvent taking from the event's slot SWAP_DURATION later
WakesSmallest(i) ==
    LET ev == engines'[i].last_event.event
        now == engines'[i].last_event.scheduled_time
        sid == CHOOSE s \in WaitingAt(i) : \A t \in WaitingAt(i) : s <= t
    IN  /\ engines'[i].scooters[sid].state = "SWAPPING"
        /\ Len(Enqueued(i)) = 1
        /\ Enqueued(i)[1].scheduled_time = now + SWAP_DURATION
        /\ Enqueued(i)[1].event.kind = "BatterySwap"
        /\ Enqueued(i)[1].event.scooter_id = sid
        /\ Enqueued(i)[1].event.station_id = ev.station_id
        /\ Enqueued(i)[1].event.take_from_slot = ev.slot_index
        /\ \A t \in WaitingAt(i) \ {sid} :
             engines'[i].scooters[t] = engines[i].scooters[t]

\* the BatteryFullyChargedEvent being processed wakes nobody
WakesNobody(i) ==
    /\ Enqueued(i) = <<>>
    /\ engines'[i].scooters = engines[i].scooters

InNamedSlot(i) ==
    LET ev == engines'[i].last_event.event
        st == engines[i].stations[ev.station_id]
    IN  /\ has_slot(st, ev.slot_index)
        /\ st.slots[ev.slot_index].battery_id = ev.battery_id

\* C28: every BatteryFullyChargedEvent is processed while its battery is
\* still in the slot named by the event and that slot is still charging, so
\* that it is the one signal of the charging episode its deposit began
OneSignalPerEpisode ==
    [][\A i \in DOMAIN engines : Handled(i, "BatteryFullyCharged") =>
         LET ev == engines'[i].last_event.event
         IN  /\ InNamedSlot(i)
             /\ engines[i].stations[ev.station_id].slots[ev.slot_index].is_charging]_vars

\* C29: processing a BatteryChargingTickEvent makes no battery full that was
\* not full before it
TickNeverFills ==
    [][\A i \in DOMAIN engines : Handled(i, "BatteryChargingTick") =>
         \A b \in DOMAIN engines[i].batteries :
             ~is_full(engines[i].batteries[b]) => ~is_full(engines'[i].batteries[b])]_vars

\* C30: processing an event never raises the charge of a battery that a
\* scooter carries
NoChargeInScooter ==
    [][\A i \in DOMAIN engines :
         (i \in DOMAIN engines' /\ Processed(engines[i], engines'[i])) =>
            \A b \in DOMAIN engines[i].batteries :
                engines[i].batteries[b].location = "IN_SCOOTER" =>
                    engines'[i].batteries[b].current_charge_kwh
                        <= engines[i].batteries[b].current_charge_kwh]_vars

\* the scooter ids of the configurations
ScooterIds == 0 .. 2

InState(s, state) ==
    /\ 1 \in DOMAIN engines
    /\ s \in DOMAIN engines[1].scooters
    /\ engines[1].scooters[s].state = state

\* C31: a scooter that waits for a battery at a station is eventually made
\* SWAPPING again
WaitingReactivated ==
    \A s \in ScooterIds : InState(s, "WAITING_FOR_BATTERY") ~> InState(s, "SWAPPING")

\* the scooter of the ScooterMoveEvent being processed was travelling to a
\* station before the step
Travelling(i) ==
    engines[i].scooters[engines'[i].last_event.event.scooter_id].state
        = "TRAVELING_TO_STATION"

ZeroMoveDelayed ==
    [][\A i \in DOMAIN engines :
         (i \in DOMAIN engines' /\ Processed(engines[i], engines'[i])) =>
            \A k \in 1 .. Len(Enqueued(i)) :
                LET entry == Enqueued(i)[k]
                    now == engines'[i].last_event.scheduled_time
                IN  (entry.event.kind = "ScooterMove"
                       /\ entry.event.scooter_id \in DOMAIN engines'[i].scooters) =>
                      /\ entry.scheduled_time > now
                      /\ entry.event.new_position
                            = engines'[i].scooters[entry.event.scooter_id].position
                           => entry.scheduled_time = now + ZERO_MOVE_DELAY]_vars

\* the go-idle and swap-then-idle events a step has enqueued as the outcome
\* of check_activity (a swap passes on a wake-up time computed earlier)
IdleDecisions(i) ==
    IF engines'[i].last_event.event.kind \in {"BatterySwap", "ScooterSwapThenIdle"}
    THEN {}
    ELSE {Enqueued(i)[k].event : k \in {j \in 1 .. Len(Enqueued(i)) :
             Enqueued(i)[j].event.kind \in {"ScooterGoIdle", "ScooterSwapThenIdle"}}}

\* C34: the wake_up_time check_activity returns to a scheduled scooter
\* outside its active window is the earliest time after now whose hour of
\* day is activity_start_hour; inside the window (distance cap) it is the
\* next midnight plus activity_start_hour
WakeUpAtNextStart ==
    [][\A i \in DOMAIN engines :
         (i \in DOMAIN engines' /\ Processed(engines[i], engines'[i])) =>
            \A ev \in IdleDecisions(i) :
                LET now == engines'[i].last_event.scheduled_time
                    a == ActivityStrategyOf(engines'[i].scooters[ev.scooter_id])
                    w == ev.wake_up_time
                IN  IF is_within_active_hours(a, get_time_of_day(now))
                    THEN w = ((now \div DAY) + 1) * DAY + a.activity_start_hour
                    ELSE /\ w > now
                         /\ w - now <= DAY
                         /\ get_time_of_day(w) = a.activity_start_hour]_vars

\* the scheduled scooters that are IDLE with their daily distance cap
\* reached when the DailyResetEvent being processed begins
IdleAtCap(i) ==
    {s \in DOMAIN engines[i].scooters :
        LET a == ActivityStrategyOf(engines[i].scooters[s])
        IN  /\ a.type = "scheduled"
            /\ engines[i].scooters[s].state = "IDLE"
            /\ has_exceeded_daily_distance(a, engines[i].scooters[s])}

MoveEnqueuedFor(i, s) ==
    \E k \in 1 .. Len(Enqueued(i)) :
        /\ Enqueued(i)[k].event.kind = "ScooterMove"
        /\ Enqueued(i)[k].event.scooter_id = s

\* C35: a DailyResetEvent sets distance_traveled_today of a scheduled scooter
\* that is IDLE at its distance cap to 0, and makes it MOVING with a move
\* scheduled exactly when midnight lies within its active window; otherwise
\* the scooter stays IDLE
DailyResetWakes ==
    [][\A i \in DOMAIN engines : Handled(i, "DailyReset") =>
         \A s \in IdleAtCap(i) :
             LET now == engines'[i].last_event.scheduled_time
                 a == ActivityStrategyOf(engines[i].scooters[s])
                 b == engines'[i].scooters[s]
             IN  /\ b.distance_traveled_today = 0
                 /\ IF is_within_active_hours(a, get_time_of_day(now))
                    THEN b.state = "MOVING" /\ MoveEnqueuedFor(i, s)
                    ELSE b.state = "IDLE" /\ ~MoveEnqueuedFor(i, s)]_vars

\* C36: a ScooterSwapThenIdleEvent with wake_up_time w sends its scooter to
\* the nearest station with idle_until = w; idle_until is kept on the way
\* and through the wait for the swap, which only the swap itself ends (no
\* free-roam move in between); the swap of a scooter with idle_until
\* set schedules no move for it but a ScooterGoIdleEvent at the current time
\* with that wake_up_time, which makes the scooter IDLE with idle_until = w
\* and schedules its ScooterWakeUpEvent at w
SwapThenIdleFlow ==
    [][\A i \in DOMAIN engines :
         (i \in DOMAIN engines' /\ Processed(engines[i], engines'[i])
            /\ ~Dangling(engines[i], engines'[i].last_event.event)) =>
            LET ev == engines'[i].last_event.event
                now == engines'[i].last_event.scheduled_time
                sid == ev.scooter_id
            IN  /\ (ev.kind = "ScooterSwapThenIdle" /\ DOMAIN engines[i].stations # {}) =>
                      /\ engines'[i].scooters[sid].state = "TRAVELING_TO_STATION"
                      /\ engines'[i].scooters[sid].idle_until = ev.wake_up_time
                /\ \A s \in DOMAIN engines[i].scooters :
                      (/\ engines[i].scooters[s].state
                            \in {"TRAVELING_TO_STATION", "SWAPPING"}
                       /\ engines'[i].scooters[s].state
                            \in {"TRAVELING_TO_STATION", "SWAPPING", "WAITING_FOR_BATTERY"})
                      => engines'[i].scooters[s].idle_until
                            = engines[i].scooters[s].idle_until
                /\ \A s \in DOMAIN engines[i].scooters :
                      (/\ engines[i].scooters[s].state
                            \in {"TRAVELING_TO_STATION", "SWAPPING"}
                       /\ engines[i].scooters[s].idle_until # None
                       /\ engines'[i].scooters[s].state
                            \notin {"TRAVELING_TO_STATION", "SWAPPING",
                                    "WAITING_FOR_BATTERY"})
                      => ev.kind = "BatterySwap" /\ sid = s /\ Swapped(i)
                /\ (ev.kind = "BatterySwap" /\ Swapped(i)
                      /\ engines[i].scooters[sid].idle_until # None) =>
                      /\ ~MoveEnqueuedFor(i, sid)
                      /\ Enqueued(i)[Len(Enqueued(i))]
                           = [Enqueued(i)[Len(Enqueued(i))] EXCEPT
                                !.event = ScooterGoIdleEvent(
                                              sid, engines[i].scooters[sid].idle_until),
                                !.scheduled_time = now]
                /\ ev.kind = "ScooterGoIdle" =>
                      /\ engines'[i].scooters[sid].state = "IDLE"
                      /\ engines'[i].scooters[sid].idle_until = ev.wake_up_time
                      /\ Len(Enqueued(i)) = 1
                      /\ Enqueued(i)[1]
                           = [Enqueued(i)[1] EXCEPT
                                !.event = ScooterWakeUpEvent(sid),
                                !.scheduled_time = ev.wake_up_time]]_vars

\* a scooter sent to a station by a ScooterSwapThenIdleEvent has swapped its
\* battery and has become IDLE at the time of the swap
SwapThenIdleFlowWitness ==
    \E i \in DOMAIN engines : \E s \in DOMAIN engines[i].scooters :
        /\ engines[i].last_step = "processed"
        /\ engines[i].last_event.event.kind = "ScooterGoIdle"
        /\ engines[i].last_event.event.scooter_id = s
        /\ engines[i].scooters[s].state = "IDLE"
        /\ engines[i].metrics.swap_events # <<>>
        /\ LET swap == engines[i].metrics.swap_events[Len(engines[i].metrics.swap_events)]
           IN  /\ swap.scooter_id = s
               /\ swap.timestamp = engines[i].last_event.scheduled_time

\* the movement strategy the selection order gives a scooter: its own, else
\* the world's, else RandomWalk
MovementStrategyOf(e, scooter) ==
    IF scooter.movement_strategy # "none" THEN scooter.movement_strategy
    ELSE IF e.movement_strategy # "none" THEN e.movement_strategy
    ELSE "random_walk"

\* the destinations strategy can choose for scooter
Destinations(strategy, e, scooter) ==
    IF strategy = "random_walk"
         /\ Len(neighbors(scooter.position, e.grid_width, e.grid_height)) > 0
    THEN {neighbors(scooter.position, e.grid_width, e.grid_height)[k] :
             k \in 1 .. Len(neighbors(scooter.position, e.grid_width, e.grid_height))}
    ELSE {scooter.position}

\* C37: the destination of every free-roam move a step schedules is one the
\* scooter's own movement strategy chooses if it has one, else the world's
\* strategy, else RandomWalk
OwnStrategyFirst ==
    [][\A i \in DOMAIN engines :
         (i \in DOMAIN engines' /\ Processed(engines[i], engines'[i])) =>
            \A k \in 1 .. Len(Enqueued(i)) :
                LET entry == Enqueued(i)[k]
                    sid == entry.event.scooter_id
                IN  (/\ entry.event.kind = "ScooterMove"
                     /\ sid \in DOMAIN engines'[i].scooters
                     /\ engines'[i].scooters[sid].state = "MOVING") =>
                       entry.event.new_position
                         \in Destinations(
                                MovementStrategyOf(engines'[i], engines'[i].scooters[sid]),
                                engines'[i], engines'[i].scooters[sid])]_vars

\* C38: an event is never dispatched while an event with the same
\* scheduled_time that was scheduled before it is still pending, also after
\* the event counter of the process has been reset
EqualTimeOrder ==
    [][\A i \in DOMAIN engines :
          LET a == engines[i]
              b == engines'[i]
          IN  (i \in DOMAIN engines' /\ Processed(a, b)) =>
                \A j, k \in 1 .. Len(a.queue) :
                    (a.queue[k] = b.last_event /\ j < k) =>
                        a.queue[j].scheduled_time # b.last_event.scheduled_time]_vars

\* the pending events of the given kind for scooter s
Pending(e, kind, s) ==
    {k \in 1 .. Len(e.queue) :
        e.queue[k].event.kind = kind /\ e.queue[k].event.scooter_id = s}

\* C39: after every processed event the queue holds a ScooterWakeUpEvent for
\* every scooter that is IDLE
IdleHasWakeUp ==
    \A i \in DOMAIN engines : \A s \in DOMAIN engines[i].scooters :
        (/\ engines[i].last_step \in {"processed", "raised"}
         /\ engines[i].scooters[s].state = "IDLE") =>
            Pending(engines[i], "ScooterWakeUp", s) # {}

\* a ScooterWakeUpEvent has been processed that left its scooter IDLE, with
\* another wake-up pending
IdleHasWakeUpWitness ==
    \E i \in DOMAIN engines : \E s \in DOMAIN engines[i].scooters :
        /\ engines[i].last_step = "processed"
        /\ engines[i].last_event.event.kind = "ScooterWakeUp"
        /\ engines[i].last_event.event.scooter_id = s
        /\ engines[i].scooters[s].state = "IDLE"
        /\ Pending(engines[i], "ScooterWakeUp", s) # {}

\* C40: after every processed event each scooter has at most one pending
\* ScooterMoveEvent and at most one pending BatterySwapEvent and never both;
\* a SWAPPING scooter has exactly one pending BatterySwapEvent and a
\* WAITING_FOR_BATTERY scooter has neither
OnePendingPerScooter ==
    \A i \in DOMAIN engines : \A s \in DOMAIN engines[i].scooters :
        engines[i].last_step \in {"processed", "raised"} =>
            LET moves == Cardinality(Pending(engines[i], "ScooterMove", s))
                swaps == Cardinality(Pending(engines[i], "BatterySwap", s))
            IN  /\ moves + swaps <= 1
                /\ engines[i].scooters[s].state = "SWAPPING" => swaps = 1
                /\ engines[i].scooters[s].state = "WAITING_FOR_BATTERY"
                     => moves + swaps = 0


\* one scooter is SWAPPING with its BatterySwapEvent pending while another is
\* MOVING with its ScooterMoveEvent pending
OnePendingPerScooterWitness ==
    \E i \in DOMAIN engines : \E s, t \in DOMAIN engines[i].scooters :
        /\ engines[i].last_step = "processed"
        /\ engines[i].scooters[s].state = "SWAPPING"
        /\ Cardinality(Pending(engines[i], "BatterySwap", s)) = 1
        /\ engines[i].scooters[t].state = "MOVING"
        /\ Cardinality(Pending(engines[i], "ScooterMove", t)) = 1

====
